---- MODULE Spec2Model ----
(***************************************************************************)
(* optionboard backend: the candle ingestion cycle (lifespan, load_candles *)
(* and its per-day tasks), the ClickHouse price-series store, hist_vol,    *)
(* the ClickHouse connection pool, expiry_time, and the batch pricing of   *)
(* an asset's options (add_params, process_asset_options).                 *)
(*                                                                         *)
(* Time is counted in whole minutes from a Monday 00:00, so that           *)
(* day d = t \div 1440 and weekday(d) = d % 7 with 0 = Monday, as          *)
(* datetime.weekday() numbers the days.  An Optional value is <<>> (None)  *)
(* or <<v>>.  An asset code is the sequence of its characters.             *)
(***************************************************************************)
EXTENDS Integers, Sequences, FiniteSets, TLC

VARIABLES
    now,            \* the wall clock (datetime.now()), in minutes
    assets,         \* the members of UNDERLYINGASSETS read by lifespan
    phase,          \* where lifespan stands
    cycle,          \* how many times lifespan has started
    outerSem,       \* free permits of lifespan's Semaphore(5)
    lcPc,           \* per asset: where load_asset_candles/load_candles stands
    end_date,       \* per asset: load_candles' end_date
    last_date,      \* per asset: load_candles' last_date (Optional)
    dates,          \* per asset: load_candles' list of dates
    task,           \* per asset: the state of each load_candles_for_date task
    sem,            \* per asset: free permits of load_candles' Semaphore(10)
    requests,       \* per asset: the feed requests issued in this call
    lcRaised,       \* per asset: load_candles ended by raising
    failed,         \* per asset: days whose fetch failed in the running/last call
    prevFailed,     \* per asset: days whose fetch failed in the call before
    apPc,           \* per asset: where add_asset_params/add_params stands
    hv,             \* per asset: what hist_vol returned (Optional)
    store,          \* per series: the rows of the <series>_candles table
    feedModes,      \* what the feed and the store may answer in this run
    dbFailure,      \* whether get_last_candle_date's query may raise in this run
    lastRead,       \* the last read of the store: which call, what it returned,
                    \* and lastWrite and the table's latest timestamp then
    lastWrite,      \* per series: the [timestamp, close] last written per timestamp
    saves,          \* save_candles calls made in the store specification
    appended,       \* the last save_candles added only bars later than the table's
    max_connections,      \* ClickHouseConnectionPool.max_connections
    created_connections,  \* ClickHouseConnectionPool._created_connections
    pool,           \* ClickHouseConnectionPool._pool, a FIFO queue of clients
    open,           \* the clients created and not closed
    held,           \* per pool task: the client it holds (Optional)
    ppc,            \* per pool task: where it stands in get_db_connection
    closing,        \* close_all is suspended in client.close()
    nextConn,       \* the identity of the next client created
    lastExit,       \* how the last get_db_connection body ended
    etNow,          \* the wall clock of expiry_time (datetime.now()), in seconds
    etExpiry,       \* the expiry date given to expiry_time, a day number
    etValue,        \* what the last expiry_time call returned (Optional)
    etPrev,         \* what the expiry_time call before it returned (Optional)
    docs,           \* the option documents of the asset read from Redis
    options,        \* the batch handed to process_asset_options
    hvIn,           \* the hist_vol_value handed to it (Optional)
    bpc,            \* which call of the pricing specification was made
    enriched_options, \* the list process_asset_options returned
    apRaised,       \* add_params ended by raising
    afBase,         \* the base asset given to actual_futures
    afDate,         \* the current_date given to it: [day, time]
    afResult,       \* the contract code it returned (Optional)
    ivArgs,         \* the arguments of the implied_volatility call
    ivResult,       \* what implied_volatility returned (Optional)
    bsArgs,         \* the arguments of the pricing calls of one option pair
    bsResult,       \* the call and put prices they returned (Optional)
    fastPc          \* per getdb_candles_fast call: where it stands

cycleVars == <<now, assets, phase, cycle, outerSem, lcPc, end_date, last_date,
               dates, task, sem, requests, lcRaised, failed, prevFailed, apPc,
               hv, feedModes, dbFailure>>
storeVars == <<lastRead, lastWrite, saves, appended>>
poolVars  == <<max_connections, created_connections, pool, open, held, ppc,
               closing, nextConn, lastExit>>
expiryVars == <<etNow, etExpiry, etValue, etPrev>>
batchVars == <<docs, options, hvIn, bpc, enriched_options, apRaised>>
callVars == <<afBase, afDate, afResult, ivArgs, ivResult, bsArgs, bsResult, fastPc>>
vars == <<cycleVars, store, storeVars, poolVars, expiryVars, batchVars, callVars>>

-----------------------------------------------------------------------------
(* Bounds of the model *)

\* lifespan is started at most this many times (process restarts)
MaxCycles == 2
\* calendar days between the latest stored bar and now in InitSem
SemGapDays == 15
\* HIST_WINDOW_MINUTES (252 * 865 \div 12 in config.py) scaled down
HIST_WINDOW_MINUTES == 2
\* the pool is built with max_connections in 1..MaxPoolSize
MaxPoolSize == 2
\* tasks using the pool
NumPoolTasks == 3
\* clients created in one run
MaxClients == 4
\* save_candles calls in one run of the store specification
MaxSaves == 2
\* days the clock of the expiry specification runs
ExpiryHorizonDays == 5
\* option documents of the asset in the pricing specification
MaxBatch == 2

(* Program constants *)

SemPermits == 10        \* asyncio.Semaphore(10) in load_candles
OuterSemPermits == 5    \* asyncio.Semaphore(5) in lifespan
SeedWeeks == 8          \* timedelta(weeks=8)
MINUTES_PER_DAY == 865  \* settings.MINUTES_PER_DAY

-----------------------------------------------------------------------------
(* datetime *)

None == <<>>
Some(v) == <<v>>

DateOf(t) == t \div 1440
Weekday(t) == DateOf(t) % 7
\* datetime.replace(hour=h, minute=m)
Replace(t, h, m) == DateOf(t) * 1440 + h * 60 + m

Min2(x, y) == IF x <= y THEN x ELSE y
SetMax(S) == CHOOSE x \in S : \A y \in S : y <= x

-----------------------------------------------------------------------------
(* asset codes *)

Digits == {"0", "1", "2", "3", "4", "5", "6", "7", "8", "9"}
SiZ5 == <<"S", "i", "Z", "5">>
SiH6 == <<"S", "i", "H", "6">>
SBER == <<"S", "B", "E", "R">>

\* int(underlying[-1]) succeeds
IsFutures(underlying) ==
    Len(underlying) > 0 /\ underlying[Len(underlying)] \in Digits

\* base_underlying: underlying[:2] for a futures code, else the code itself
BaseUnderlying(underlying) ==
    IF IsFutures(underlying)
    THEN SubSeq(underlying, 1, Min2(2, Len(underlying)))
    ELSE underlying

AllAssets == {SiZ5, SiH6, SBER}
Series == {BaseUnderlying(a) : a \in AllAssets}


-----------------------------------------------------------------------------
(* The <series>_candles table: ENGINE = ReplacingMergeTree(ingested_at),   *)
(* ORDER BY (timestamp).  An insert adds rows; rows with one timestamp are *)
(* collapsed to the one with the greatest ingested_at only when the engine *)
(* merges parts in the background, at a time it chooses.  A row is         *)
(* [timestamp, close, ingested_at]; open, high, low and volume travel with *)
(* close and are left out.  A close is the exponent e of a price 2^e, so   *)
(* that a log return is a difference of closes.                            *)

Range(s) == {s[i] : i \in DOMAIN s}

RECURSIVE SortedSeq(_)
SortedSeq(S) ==
    IF S = {} THEN <<>>
    ELSE LET m == CHOOSE x \in S : \A y \in S : x <= y
         IN <<m>> \o SortedSeq(S \ {m})

\* the rows save_candles builds from a list of candles at utcnow() = at:
\* a candle without timestamp is skipped
CandleRows(candles, at) ==
    {[timestamp |-> c.timestamp[1], close |-> c.close, ingested_at |-> at] :
        c \in {x \in Range(candles) : x.timestamp # None}}

\* save_candles: the table after the call; inserted = the insert did not raise
SaveCandlesRows(rows, candles, at, inserted) ==
    IF candles = <<>> \/ CandleRows(candles, at) = {} \/ ~inserted
    THEN rows
    ELSE rows \cup CandleRows(candles, at)

\* save_candles' return value
SaveCandlesResult(candles, at, inserted) ==
    IF candles = <<>> THEN TRUE
    ELSE IF CandleRows(candles, at) = {} THEN FALSE
    ELSE inserted

\* a background merge of the ReplacingMergeTree: of the rows of one
\* timestamp those with the greatest ingested_at stay, and one of them if
\* several have it
MergedTables(rows) ==
    {kept \in SUBSET rows :
        /\ \A r \in rows : \E k \in kept : k.timestamp = r.timestamp
        /\ \A k1, k2 \in kept : k1.timestamp = k2.timestamp => k1 = k2
        /\ \A k \in kept : \A r \in rows :
              r.timestamp = k.timestamp => r.ingested_at <= k.ingested_at}

\* get_last_candle_date: maxOrNull(timestamp), None when the table is
\* empty or the query raised
GetLastCandleDate(rows, ok) ==
    IF ~ok \/ rows = {} THEN None
    ELSE Some(SetMax({r.timestamp : r \in rows}))

\* SELECT ... ORDER BY timestamp ASC LIMIT n: every order of the rows the
\* statement allows (rows of equal timestamp come in any order)
RECURSIVE OrderedAscLimit(_, _)
OrderedAscLimit(rows, n) ==
    IF n = 0 \/ rows = {} THEN {<<>>}
    ELSE LET firsts == {r \in rows : \A x \in rows : r.timestamp <= x.timestamp}
         IN UNION {{<<r>> \o s : s \in OrderedAscLimit(rows \ {r}, n - 1)} : r \in firsts}

\* SELECT ... ORDER BY timestamp DESC LIMIT n
RECURSIVE OrderedDescLimit(_, _)
OrderedDescLimit(rows, n) ==
    IF n = 0 \/ rows = {} THEN {<<>>}
    ELSE LET firsts == {r \in rows : \A x \in rows : r.timestamp >= x.timestamp}
         IN UNION {{<<r>> \o s : s \in OrderedDescLimit(rows \ {r}, n - 1)} : r \in firsts}

\* getdb_closes: the possible results, each a list of (timestamp, close)
GetdbCloses(rows) == OrderedAscLimit(rows, HIST_WINDOW_MINUTES + 1)

\* getdb_candles, whose limit (3000) is above every table of the model
GetdbCandles(rows) == OrderedDescLimit(rows, Cardinality(rows))

-----------------------------------------------------------------------------
(* hist_vol *)

RECURSIVE SumSeq(_)
SumSeq(s) == IF s = <<>> THEN 0 ELSE s[1] + SumSeq(Tail(s))

\* np.diff(np.log(prices)) in units of ln 2
LogReturns(data) == [i \in 1..(Len(data) - 1) |-> data[i + 1].close - data[i].close]

\* the last rolling window of n returns
LastWindow(returns, n) == SubSeq(returns, Len(returns) - n + 1, Len(returns))

\* n^2 times the variance of the window, n * sum(r^2) - sum(r)^2: the
\* value hist_vol returns is sqrt of it, scaled and rounded
WindowVariance(w) ==
    Len(w) * SumSeq([i \in DOMAIN w |-> w[i] * w[i]]) - SumSeq(w) * SumSeq(w)

\* a value computed from whatever returns there are
HistVol_AnyWindow(data) ==
    IF data = <<>> THEN None
    ELSE Some(WindowVariance(LastWindow(LogReturns(data),
                  Min2(Len(LogReturns(data)), HIST_WINDOW_MINUTES))))

\* hist_vol on the list the store read returned (already ascending, and
\* sorted() is stable): None without data or with fewer returns than the
\* window
HistVol(data) ==
    IF data = <<>> THEN None
    ELSE IF Len(LogReturns(data)) < HIST_WINDOW_MINUTES THEN None
    ELSE Some(WindowVariance(LastWindow(LogReturns(data), HIST_WINDOW_MINUTES)))

\* vol_timestamps[-1]: the bar the returned value is as of
HistVolAsOf(data) ==
    IF data = <<>> \/ Len(LogReturns(data)) < HIST_WINDOW_MINUTES THEN None
    ELSE Some(data[Len(data)].timestamp)


-----------------------------------------------------------------------------
(* The feed (iss.moex.com candles.json), as load_candles sees it.  The     *)
(* feed has a one-minute bar at each of BarTimes on every weekday, once    *)
(* that minute has passed.                                                 *)

BarTimes == {600, 900}

FeedClose(t) == (DateOf(t) + (t % 1440) \div 300) % 3

\* candles(): from_time and till_time of the request for a date
RequestFrom(date) == Replace(date, 8, 59)
RequestTill(date) == Replace(date, 23, 49)

\* the bars the feed holds inside the requested range at time at
FeedTimes(date, at) ==
    {t \in {DateOf(date) * 1440 + m : m \in BarTimes} :
        /\ RequestFrom(date) <= t /\ t <= RequestTill(date)
        /\ t <= at
        /\ Weekday(t) < 5}

\* candles(): the list of candles of an answered request
FeedCandles(date, at) ==
    LET ts == SortedSeq(FeedTimes(date, at))
    IN [i \in DOMAIN ts |-> [timestamp |-> Some(ts[i]), close |-> FeedClose(ts[i])]]

\* what a fetch may come to: "ok" (answered), "empty" (non-200, timeout or
\* an empty answer: fetch_json returns None), "error" (an exception)
FetchOutcomes(modes) ==
    (IF modes \cap {"ok", "savefail"} # {} THEN {"ok"} ELSE {})
        \cup (modes \cap {"empty", "error"})

\* whether the insert of save_candles goes through
SaveOutcomes(modes) ==
    (IF "ok" \in modes THEN {TRUE} ELSE {})
        \cup (IF "savefail" \in modes THEN {FALSE} ELSE {})

-----------------------------------------------------------------------------
(* load_candles *)

\* start_date: one minute after the last stored bar, else 07:00 of today
\* eight weeks back
StartDate(last, end) ==
    IF last # None THEN last[1] + 1
    ELSE Replace(end, 7, 0) - SeedWeeks * 7 * 1440

\* the while loop of load_candles
RECURSIVE WalkDates(_, _, _)
WalkDates(current_date, end, acc) ==
    IF DateOf(current_date) < DateOf(end)
    THEN LET next == current_date + 1440
         IN WalkDates(next, end,
                      IF Weekday(next) < 5 THEN Append(acc, next) ELSE acc)
    ELSE acc

\* dates: start_date itself, then 06:59 of every later weekday up to today
DateList(start, end) == WalkDates(Replace(start, 6, 59), end, <<start>>)

Settled == {"stored", "unsaved", "nodata", "error"}
InSection(a) == Cardinality({i \in DOMAIN task[a] : task[a][i] \in {"fetching", "saving"}})
AllSettled(a) == \A i \in DOMAIN task[a] : task[a][i] \in Settled

\* a semaphore released by hand after the body, skipped by an exception
ReleasesPermit_NotOnError(outcome) == outcome # "error"

\* async with sem: the permit goes back however the body ends
ReleasesPermit(outcome) == TRUE

\* no except in the task and a plain gather: the first exception leaves
\* load_candles while the other tasks still run
LoadCandlesRaises_Uncaught(outcome) == outcome = "error"

\* an exception of a per-day task leaves load_candles: never, it is caught
\* in load_candles_for_date (except Exception) and gather is called with
\* return_exceptions=True
LoadCandlesRaises(outcome) == FALSE

\* the candle tasks started and not awaited
CandlesGathered_NotAwaited == TRUE

\* lifespan: await asyncio.gather(*candles_tasks) has returned
CandlesGathered == \A a \in assets : lcPc[a] = "done"

\* lifespan: await asyncio.gather(*params_tasks) has returned
ParamsGathered == \A a \in assets : apPc[a] = "done"

\* get_options stored the assets; lifespan creates the candle tasks
GetOptions ==
    /\ phase = "startup"
    /\ phase' = "candles"
    /\ lcPc' = [a \in assets |-> "created"]
    /\ UNCHANGED <<now, assets, cycle, outerSem, end_date, last_date, dates,
                   task, sem, requests, lcRaised, failed, prevFailed, apPc, hv,
                   feedModes, dbFailure, store, storeVars, poolVars, expiryVars, callVars,
                   batchVars>>

\* get_options raised: lifespan logs it and goes on to serve
GetOptionsFails ==
    /\ phase = "startup"
    /\ phase' = "serving"
    /\ UNCHANGED <<now, assets, cycle, outerSem, lcPc, end_date, last_date,
                   dates, task, sem, requests, lcRaised, failed, prevFailed,
                   apPc, hv, feedModes, dbFailure, store, storeVars, poolVars, expiryVars, callVars,
                   batchVars>>

\* load_asset_candles takes a permit of lifespan's semaphore; load_candles
\* reads the clock and awaits get_last_candle_date
LoadAssetCandles(a) ==
    /\ lcPc[a] = "created"
    /\ outerSem > 0
    /\ outerSem' = outerSem - 1
    /\ end_date' = [end_date EXCEPT ![a] = now]
    /\ lcPc' = [lcPc EXCEPT ![a] = "last_date"]
    /\ UNCHANGED <<now, assets, phase, cycle, last_date, dates, task, sem,
                   requests, lcRaised, failed, prevFailed, apPc, hv, feedModes,
                   dbFailure, store, storeVars, poolVars, expiryVars, callVars,
                   batchVars>>

\* get_last_candle_date has answered: load_candles builds the list of dates
\* and creates one task per date, or returns when start_date >= end_date
LoadCandlesBegin(a) ==
    /\ lcPc[a] = "last_date"
    /\ \E ok \in (IF dbFailure THEN BOOLEAN ELSE {TRUE}) :
         LET last == GetLastCandleDate(store[BaseUnderlying(a)], ok)
             start == StartDate(last, end_date[a])
         IN /\ last_date' = [last_date EXCEPT ![a] = last]
            /\ IF start >= end_date[a]
               THEN /\ lcPc' = [lcPc EXCEPT ![a] = "done"]
                    /\ outerSem' = outerSem + 1
                    /\ dates' = [dates EXCEPT ![a] = <<>>]
                    /\ task' = [task EXCEPT ![a] = <<>>]
                    /\ UNCHANGED sem
               ELSE /\ lcPc' = [lcPc EXCEPT ![a] = "gather"]
                    /\ dates' = [dates EXCEPT ![a] = DateList(start, end_date[a])]
                    /\ task' = [task EXCEPT ![a] =
                                  [i \in DOMAIN DateList(start, end_date[a]) |-> "pending"]]
                    /\ sem' = [sem EXCEPT ![a] = SemPermits]
                    /\ UNCHANGED outerSem
    /\ requests' = [requests EXCEPT ![a] = {}]
    /\ lcRaised' = [lcRaised EXCEPT ![a] = FALSE]
    /\ prevFailed' = [prevFailed EXCEPT ![a] = failed[a]]
    /\ failed' = [failed EXCEPT ![a] = {}]
    /\ UNCHANGED <<now, assets, phase, cycle, end_date, apPc, hv, feedModes,
                   dbFailure, store, storeVars, poolVars, expiryVars, callVars,
                   batchVars>>

\* a per-day task enters "async with sem" and sends its request; the
\* semaphore serves its waiters in the order they arrived, which is the
\* order of the list
TaskAcquire(a, i) ==
    /\ i \in DOMAIN task[a]
    /\ task[a][i] = "pending"
    /\ \A j \in 1..(i - 1) : task[a][j] # "pending"
    /\ sem[a] > 0
    /\ sem' = [sem EXCEPT ![a] = @ - 1]
    /\ task' = [task EXCEPT ![a][i] = "fetching"]
    /\ requests' = [requests EXCEPT ![a] = @ \cup
                      {[from |-> RequestFrom(dates[a][i]), till |-> RequestTill(dates[a][i])]}]
    /\ UNCHANGED <<now, assets, phase, cycle, outerSem, lcPc, end_date,
                   last_date, dates, lcRaised, failed, prevFailed, apPc, hv,
                   feedModes, dbFailure, store, storeVars, poolVars, expiryVars, callVars,
                   batchVars>>

\* candles() has returned or raised
TaskFetched(a, i) ==
    /\ i \in DOMAIN task[a]
    /\ task[a][i] = "fetching"
    /\ \E o \in FetchOutcomes(feedModes) :
         LET raw == IF o = "ok" THEN FeedCandles(dates[a][i], now) ELSE <<>>
             result == IF o = "error" THEN "error"
                       ELSE IF raw = <<>> THEN "nodata"
                       ELSE "saving"
         IN /\ task' = [task EXCEPT ![a][i] = result]
            /\ sem' = [sem EXCEPT ![a] =
                         IF result # "saving" /\ ReleasesPermit(result) THEN @ + 1 ELSE @]
            /\ failed' = [failed EXCEPT ![a] =
                            IF o \in {"empty", "error"}
                            THEN @ \cup {DateOf(dates[a][i])} ELSE @]
            /\ IF LoadCandlesRaises(o) /\ lcPc[a] = "gather"
               THEN /\ lcPc' = [lcPc EXCEPT ![a] = "done"]
                    /\ lcRaised' = [lcRaised EXCEPT ![a] = TRUE]
                    /\ outerSem' = outerSem + 1
               ELSE UNCHANGED <<lcPc, lcRaised, outerSem>>
    /\ UNCHANGED <<now, assets, phase, cycle, end_date, last_date, dates,
                   requests, prevFailed, apPc, hv, feedModes, dbFailure, store,
                   storeVars, poolVars, expiryVars, callVars,
                   batchVars>>

\* save_candles has returned (it catches what its insert raises)
TaskSaved(a, i) ==
    /\ i \in DOMAIN task[a]
    /\ task[a][i] = "saving"
    /\ \E inserted \in SaveOutcomes(feedModes) :
         /\ store' = [store EXCEPT ![BaseUnderlying(a)] =
                        SaveCandlesRows(@, FeedCandles(dates[a][i], now), now, inserted)]
         /\ task' = [task EXCEPT ![a][i] = IF inserted THEN "stored" ELSE "unsaved"]
         /\ sem' = [sem EXCEPT ![a] = IF ReleasesPermit("saved") THEN @ + 1 ELSE @]
    /\ UNCHANGED <<now, assets, phase, cycle, outerSem, lcPc, end_date,
                   last_date, dates, requests, lcRaised, failed, prevFailed,
                   apPc, hv, feedModes, dbFailure, storeVars, poolVars, expiryVars, callVars,
                   batchVars>>

\* gather has every task's result: load_candles returns and
\* load_asset_candles gives its permit back
LoadCandlesEnd(a) ==
    /\ lcPc[a] = "gather"
    /\ AllSettled(a)
    /\ lcPc' = [lcPc EXCEPT ![a] = "done"]
    /\ outerSem' = outerSem + 1
    /\ UNCHANGED <<now, assets, phase, cycle, end_date, last_date, dates, task,
                   sem, requests, lcRaised, failed, prevFailed, apPc, hv,
                   feedModes, dbFailure, store, storeVars, poolVars, expiryVars, callVars,
                   batchVars>>

\* lifespan: the candle tasks are gathered; it creates the params tasks
GatherCandles ==
    /\ phase = "candles"
    /\ CandlesGathered
    /\ phase' = "params"
    /\ apPc' = [a \in assets |-> "created"]
    /\ UNCHANGED <<now, assets, cycle, outerSem, lcPc, end_date, last_date,
                   dates, task, sem, requests, lcRaised, failed, prevFailed, hv,
                   feedModes, dbFailure, store, storeVars, poolVars, expiryVars, callVars,
                   batchVars>>

\* add_asset_params takes a permit; add_params reads the option records
\* and, when there are any, awaits hist_vol
AddAssetParams(a) ==
    /\ apPc[a] = "created"
    /\ outerSem > 0
    /\ \E hasOptions \in BOOLEAN :
         IF hasOptions
         THEN /\ apPc' = [apPc EXCEPT ![a] = "hist_vol"]
              /\ outerSem' = outerSem - 1
         ELSE /\ apPc' = [apPc EXCEPT ![a] = "done"]
              /\ UNCHANGED outerSem
    /\ UNCHANGED <<now, assets, phase, cycle, lcPc, end_date, last_date, dates,
                   task, sem, requests, lcRaised, failed, prevFailed, hv,
                   feedModes, dbFailure, store, storeVars, poolVars, expiryVars, callVars,
                   batchVars>>

\* hist_vol's read of the store has answered; add_params enriches and
\* returns, add_asset_params gives its permit back
AddParamsHistVol(a) ==
    /\ apPc[a] = "hist_vol"
    /\ \E data \in GetdbCloses(store[BaseUnderlying(a)])
                       \cup (IF dbFailure THEN {<<>>} ELSE {}) :
         hv' = [hv EXCEPT ![a] = HistVol(data)]
    /\ apPc' = [apPc EXCEPT ![a] = "done"]
    /\ outerSem' = outerSem + 1
    /\ UNCHANGED <<now, assets, phase, cycle, lcPc, end_date, last_date, dates,
                   task, sem, requests, lcRaised, failed, prevFailed, feedModes,
                   dbFailure, store, storeVars, poolVars, expiryVars, callVars,
                   batchVars>>

\* lifespan: the params tasks are gathered; the application serves
GatherParams ==
    /\ phase = "params"
    /\ ParamsGathered
    /\ phase' = "serving"
    /\ UNCHANGED <<now, assets, cycle, outerSem, lcPc, end_date, last_date,
                   dates, task, sem, requests, lcRaised, failed, prevFailed,
                   apPc, hv, feedModes, dbFailure, store, storeVars, poolVars, expiryVars, callVars,
                   batchVars>>

\* the application is stopped and, some hours or a day later, started
\* again: lifespan runs the next cycle of every asset
Restart ==
    /\ phase = "serving"
    /\ cycle < MaxCycles
    /\ \E delta \in {240, 1440} : now' = now + delta
    /\ cycle' = cycle + 1
    /\ phase' = "startup"
    /\ lcPc' = [a \in assets |-> "none"]
    /\ apPc' = [a \in assets |-> "none"]
    /\ UNCHANGED <<assets, outerSem, end_date, last_date, dates, task, sem,
                   requests, lcRaised, failed, prevFailed, hv, feedModes,
                   dbFailure, store, storeVars, poolVars, expiryVars, callVars,
                   batchVars>>


-----------------------------------------------------------------------------
(* The store on its own: save_candles, the background merge, the reads and *)
(* hist_vol, called in any order on one series.                            *)

\* the candle lists save_candles is called with: three bars, a later bar,
\* a revision of the first bar, a candle without timestamp, nothing
StoreSeries == BaseUnderlying(SBER)
BarAt(k) == 63 * 1440 + 600 + k
CandleBatches ==
    { << [timestamp |-> Some(BarAt(1)), close |-> 0],
         [timestamp |-> Some(BarAt(2)), close |-> 1],
         [timestamp |-> Some(BarAt(3)), close |-> 0] >>,
      << [timestamp |-> Some(BarAt(4)), close |-> 2] >>,
      << [timestamp |-> Some(BarAt(1)), close |-> 2] >>,
      << [timestamp |-> None, close |-> 1] >>,
      << >> }

\* what lastWrite becomes when rows are written
Overwrite(latest, rows) ==
    {w \in latest : \A r \in rows : r.timestamp # w.timestamp}
        \cup {[timestamp |-> r.timestamp, close |-> r.close] : r \in rows}

TopOf(rows) == IF rows = {} THEN None ELSE Some(SetMax({r.timestamp : r \in rows}))

\* save_candles(underlying, candles), at utcnow() = now or a moment later
SaveCandles(u, candles) ==
    /\ saves < MaxSaves
    /\ saves' = saves + 1
    /\ \E dt \in {0, 1}, inserted \in BOOLEAN :
         /\ now' = now + dt
         /\ store' = [store EXCEPT ![u] = SaveCandlesRows(@, candles, now + dt, inserted)]
         /\ lastWrite' = [lastWrite EXCEPT ![u] =
                            IF store'[u] = store[u] THEN @
                            ELSE Overwrite(@, CandleRows(candles, now + dt))]
         /\ appended' = IF store'[u] = store[u] THEN appended
                        ELSE /\ store[u] # {}
                             /\ \A r \in CandleRows(candles, now + dt) :
                                    \A x \in store[u] : r.timestamp > x.timestamp
    /\ UNCHANGED <<assets, phase, cycle, outerSem, lcPc, end_date, last_date,
                   dates, task, sem, requests, lcRaised, failed, prevFailed,
                   apPc, hv, feedModes, dbFailure, lastRead, poolVars, expiryVars, callVars,
                   batchVars>>

\* the engine merges the parts of the table
MergeParts(u) ==
    /\ \E merged \in MergedTables(store[u]) :
         /\ merged # store[u]
         /\ store' = [store EXCEPT ![u] = merged]
    /\ UNCHANGED <<cycleVars, storeVars, poolVars, expiryVars, callVars,
                   batchVars>>

\* getdb_closes(underlying)
ReadCloses(u) ==
    /\ \E rows \in GetdbCloses(store[u]) :
         lastRead' = [op |-> "getdb_closes", rows |-> rows, value |-> None,
                      asof |-> None, latest |-> lastWrite[u], top |-> TopOf(store[u]),
                      appended |-> appended]
    /\ UNCHANGED <<cycleVars, store, lastWrite, saves, appended, poolVars, expiryVars, callVars,
                   batchVars>>

\* getdb_candles(underlying)
ReadCandles(u) ==
    /\ \E rows \in GetdbCandles(store[u]) :
         lastRead' = [op |-> "getdb_candles", rows |-> rows, value |-> None,
                      asof |-> None, latest |-> lastWrite[u], top |-> TopOf(store[u]),
                      appended |-> appended]
    /\ UNCHANGED <<cycleVars, store, lastWrite, saves, appended, poolVars, expiryVars, callVars,
                   batchVars>>

\* hist_vol(underlying)
HistVolCall(u) ==
    /\ \E data \in GetdbCloses(store[u]) :
         lastRead' = [op |-> "hist_vol", rows |-> data, value |-> HistVol(data),
                      asof |-> HistVolAsOf(data), latest |-> lastWrite[u],
                      top |-> TopOf(store[u]), appended |-> appended]
    /\ UNCHANGED <<cycleVars, store, lastWrite, saves, appended, poolVars, expiryVars, callVars,
                   batchVars>>

-----------------------------------------------------------------------------
(* ClickHouseConnectionPool and get_db_connection.  A pool task is any     *)
(* coroutine that runs "async with get_db_connection() as client".         *)

PoolTasks == 1..NumPoolTasks

Occurrences(q, c) == Cardinality({i \in DOMAIN q : q[i] = c})
Holders(c) == {t \in PoolTasks : held[t] = Some(c)}

\* return_connection after the yield, outside any finally
ReturnsConnection_OnlyOnSuccess(raised) == ~raised

\* the finally of get_db_connection runs return_connection however the
\* body ended
ReturnsConnection(raised) == TRUE

\* get_connection: it takes an idle client, creates one while
\* _created_connections < max_connections, or waits on the queue
GetConnection(t) ==
    /\ ppc[t] = "idle"
    /\ IF pool # <<>>
       THEN /\ held' = [held EXCEPT ![t] = Some(Head(pool))]
            /\ pool' = Tail(pool)
            /\ ppc' = [ppc EXCEPT ![t] = "body"]
            /\ UNCHANGED <<created_connections, open, nextConn>>
       ELSE IF created_connections < max_connections
       THEN /\ nextConn <= MaxClients
            /\ held' = [held EXCEPT ![t] = Some(nextConn)]
            /\ open' = open \cup {nextConn}
            /\ nextConn' = nextConn + 1
            /\ created_connections' = created_connections + 1
            /\ ppc' = [ppc EXCEPT ![t] = "body"]
            /\ UNCHANGED pool
       ELSE /\ ppc' = [ppc EXCEPT ![t] = "waiting"]
            /\ UNCHANGED <<held, pool, created_connections, open, nextConn>>
    /\ UNCHANGED <<max_connections, closing, lastExit>>

\* "return await self._pool.get()" is handed a client put back on the queue
PoolGet(t) ==
    /\ ppc[t] = "waiting"
    /\ pool # <<>>
    /\ held' = [held EXCEPT ![t] = Some(Head(pool))]
    /\ pool' = Tail(pool)
    /\ ppc' = [ppc EXCEPT ![t] = "body"]
    /\ UNCHANGED <<max_connections, created_connections, open, closing, nextConn,
                   lastExit>>

\* the finally of get_db_connection: return_connection puts the client
\* back, or closes it when the queue is full
ReturnConnection(t, raised) ==
    /\ ppc[t] = "body"
    /\ ppc' = [ppc EXCEPT ![t] = "idle"]
    /\ held' = [held EXCEPT ![t] = None]
    /\ lastExit' = IF raised THEN "raised" ELSE "normal"
    /\ IF ~ReturnsConnection(raised)
       THEN UNCHANGED <<pool, open, created_connections>>
       ELSE IF Len(pool) < max_connections
       THEN /\ pool' = Append(pool, held[t][1])
            /\ UNCHANGED <<open, created_connections>>
       ELSE /\ open' = open \ {held[t][1]}
            /\ created_connections' = created_connections - 1
            /\ UNCHANGED pool
    /\ UNCHANGED <<max_connections, closing, nextConn>>

\* a pool task enters "async with get_db_connection()"
EnterConnection(t) ==
    /\ GetConnection(t)
    /\ UNCHANGED <<cycleVars, expiryVars, callVars, batchVars, store, storeVars>>

\* the waiting get_connection of a pool task is handed a client
WaitConnection(t) ==
    /\ PoolGet(t)
    /\ UNCHANGED <<cycleVars, expiryVars, callVars, batchVars, store, storeVars>>

\* the body of "async with get_db_connection()" ends, normally or by
\* raising
ExitConnection(t, raised) ==
    /\ ReturnConnection(t, raised)
    /\ UNCHANGED <<cycleVars, expiryVars, callVars, batchVars, store, storeVars>>

\* close_all: with an empty queue it only resets the counter, else it
\* takes a client and suspends in client.close()
CloseAll ==
    /\ ~closing
    /\ IF pool = <<>>
       THEN /\ created_connections' = 0
            /\ UNCHANGED <<pool, open, closing>>
       ELSE /\ open' = open \ {Head(pool)}
            /\ pool' = Tail(pool)
            /\ closing' = TRUE
            /\ UNCHANGED created_connections
    /\ UNCHANGED <<cycleVars, expiryVars, callVars, batchVars, store, storeVars, max_connections, held, ppc,
                   nextConn, lastExit>>

\* close_all resumes: the next client of the queue, or the end of the loop
CloseAllResume ==
    /\ closing
    /\ IF pool = <<>>
       THEN /\ created_connections' = 0
            /\ closing' = FALSE
            /\ UNCHANGED <<pool, open>>
       ELSE /\ open' = open \ {Head(pool)}
            /\ pool' = Tail(pool)
            /\ UNCHANGED <<created_connections, closing>>
    /\ UNCHANGED <<cycleVars, expiryVars, callVars, batchVars, store, storeVars, max_connections, held, ppc,
                   nextConn, lastExit>>


-----------------------------------------------------------------------------
(* getdb_candles_fast, the reader behind the candles endpoint.  Call r     *)
(* enters get_db_connection as pool task Outer(r); create_candles_-        *)
(* materialized_view, which it awaits inside that block, enters            *)
(* get_db_connection as pool task Inner(r).                                *)

FastCalls == DOMAIN fastPc
Outer(r) == 2 * r - 1
Inner(r) == 2 * r

FastFrame == UNCHANGED <<cycleVars, store, storeVars, expiryVars, batchVars,
                         afBase, afDate, afResult, ivArgs, ivResult, bsArgs, bsResult>>

\* "async with get_db_connection() as client" of getdb_candles_fast
FastEnter(r) ==
    /\ fastPc[r] = "start"
    /\ GetConnection(Outer(r))
    /\ fastPc' = [fastPc EXCEPT ![r] = "check"]
    /\ FastFrame

\* a get_connection of the call that waits on the queue is handed a client
FastResume(r, t) ==
    /\ t \in {Outer(r), Inner(r)}
    /\ PoolGet(t)
    /\ UNCHANGED fastPc
    /\ FastFrame

\* the check query has answered: it raised, the view exists, or the view
\* is missing and create_candles_materialized_view is awaited with the
\* client still held
FastCheck(r) ==
    /\ fastPc[r] = "check"
    /\ ppc[Outer(r)] = "body"
    /\ \/ /\ ReturnConnection(Outer(r), TRUE)
          /\ fastPc' = [fastPc EXCEPT ![r] = "fallback"]
       \/ /\ ReturnConnection(Outer(r), FALSE)
          /\ fastPc' = [fastPc EXCEPT ![r] = "query"]
       \/ /\ GetConnection(Inner(r))
          /\ fastPc' = [fastPc EXCEPT ![r] = "create_view"]
    /\ FastFrame

\* create_candles_materialized_view leaves its block, normally or by
\* raising, and returns
FastViewDone(r) ==
    /\ fastPc[r] = "create_view"
    /\ \E raised \in BOOLEAN : ReturnConnection(Inner(r), raised)
    /\ fastPc' = [fastPc EXCEPT ![r] = "view_done"]
    /\ FastFrame

\* the block of getdb_candles_fast ends
FastCheckExit(r) ==
    /\ fastPc[r] = "view_done"
    /\ ReturnConnection(Outer(r), FALSE)
    /\ fastPc' = [fastPc EXCEPT ![r] = "query"]
    /\ FastFrame

\* _execute_query, or after an exception getdb_candles with its
\* _ensure_table and _execute_query, enters get_db_connection
FastQuery(r) ==
    /\ fastPc[r] \in {"query", "fallback", "fallback_query"}
    /\ ppc[Outer(r)] = "idle"
    /\ GetConnection(Outer(r))
    /\ UNCHANGED fastPc
    /\ FastFrame

\* that block ends: the query of getdb_candles_fast falls back when it
\* raised, getdb_candles returns [] when a step of it raised
FastQueryDone(r) ==
    /\ fastPc[r] \in {"query", "fallback", "fallback_query"}
    /\ \E raised \in BOOLEAN :
         /\ ReturnConnection(Outer(r), raised)
         /\ fastPc' = [fastPc EXCEPT ![r] =
                          IF fastPc[r] = "query"
                          THEN (IF raised THEN "fallback" ELSE "done")
                          ELSE IF fastPc[r] = "fallback" /\ ~raised
                          THEN "fallback_query"
                          ELSE "done"]
    /\ FastFrame

-----------------------------------------------------------------------------
(* expiry_time *)

\* Day 0 of the calendar is Monday 2025-09-01, which makes 2025-11-03 day
\* 63, 2025-11-04 day 64 and 2025-12-31 day 121.  A time of day and the
\* clock of expiry_time are counted in seconds.
TimeOfDay(h, m) == h * 3600 + m * 60
DayStart(d) == d * 24 * 3600
DayOfSeconds(t) == t \div (24 * 3600)
TimeOfSeconds(t) == t % (24 * 3600)

TRADING_START == TimeOfDay(9, 0)
TRADING_END == TimeOfDay(23, 50)
CLEARING_PERIODS ==
    <<<<TimeOfDay(14, 0), TimeOfDay(14, 5)>>, <<TimeOfDay(18, 50), TimeOfDay(19, 5)>>>>
EXPIRY_END == TimeOfDay(18, 50)
HOLIDAYS == {63, 64, 121}

\* timedelta.seconds // 60: the seconds field of a timedelta is that of
\* the delta normalised to 0 <= seconds < one day
DeltaMinutes(delta) == (delta % (24 * 3600)) \div 60

\* a guard that lets a session that has already ended be counted
SessionOpen_Always(session_start, session_end) == TRUE

\* "if session_start < session_end"
SessionOpen(session_start, session_end) == session_start < session_end

\* the whole clearing window subtracted, whatever part of it is left
ClearingMinutes_Whole(session_start, session_end, cl_start_dt, cl_end_dt) ==
    DeltaMinutes(cl_end_dt - cl_start_dt)

\* the minutes of a clearing window inside the session
ClearingMinutes(session_start, session_end, cl_start_dt, cl_end_dt) ==
    LET overlap_start == IF session_start >= cl_start_dt THEN session_start ELSE cl_start_dt
        overlap_end == Min2(session_end, cl_end_dt)
    IN IF overlap_start < overlap_end
       THEN DeltaMinutes(overlap_end - overlap_start)
       ELSE 0

\* a walk that skips weekends only
SkippedDay_WeekendOnly(cur_date) == cur_date % 7 >= 5

\* "if cur_date.weekday() >= 5 or cur_date in settings.HOLIDAYS"
SkippedDay(cur_date) == cur_date % 7 >= 5 \/ cur_date \in HOLIDAYS

\* every day of the walk closing at TRADING_END
DayEnd_AlwaysTradingEnd(cur_date, expiry_date) == TRADING_END

\* day_end of "if cur_date == expiry_date: ... else: ..."
DayEnd(cur_date, expiry_date) ==
    IF cur_date = expiry_date THEN EXPIRY_END ELSE TRADING_END

\* one pass of the while loop: the trading minutes of cur_date
SessionMinutes(cur_date, expiry_date, etnow) ==
    LET today == DayOfSeconds(etnow)
        day_end == DayEnd(cur_date, expiry_date)
        morning == DayStart(cur_date) + TRADING_START
        session_end == DayStart(cur_date) + day_end
        session_start == IF cur_date = today /\ etnow > morning
                         THEN etnow ELSE morning
        Clearing(k) ==
            IF cur_date = expiry_date /\ CLEARING_PERIODS[k][1] >= EXPIRY_END
            THEN 0
            ELSE ClearingMinutes(session_start, session_end,
                                 DayStart(cur_date) + CLEARING_PERIODS[k][1],
                                 DayStart(cur_date) + CLEARING_PERIODS[k][2])
    IN IF SkippedDay(cur_date) THEN 0
       ELSE IF SessionOpen(session_start, session_end)
       THEN DeltaMinutes(session_end - session_start) - Clearing(1) - Clearing(2)
       ELSE 0

\* "while cur_date <= expiry_date"
RECURSIVE SumSessions(_, _, _)
SumSessions(cur_date, expiry_date, etnow) ==
    IF cur_date <= expiry_date
    THEN SessionMinutes(cur_date, expiry_date, etnow)
         + SumSessions(cur_date + 1, expiry_date, etnow)
    ELSE 0

\* no terminal case, and the loop run through the day after the expiry
ExpiryTime_NoTerminalCase(expiry_date, etnow) ==
    SumSessions(DayOfSeconds(etnow), expiry_date + 1, etnow)

\* expiry_time(expiry_date) called when the clock shows etnow
ExpiryTime(expiry_date, etnow) ==
    IF \/ DayOfSeconds(etnow) > expiry_date
       \/ DayOfSeconds(etnow) = expiry_date /\ TimeOfSeconds(etnow) >= EXPIRY_END
    THEN 0
    ELSE SumSessions(DayOfSeconds(etnow), expiry_date, etnow)

\* the clock of the expiry specification starts on Sunday 2025-11-02
ExpiryClockStart == DayStart(62)

\* the clock advances and expiry_time is called
ExpiryTimeCall(dt) ==
    /\ etNow + dt <= ExpiryClockStart + DayStart(ExpiryHorizonDays)
    /\ etNow' = etNow + dt
    /\ etValue' = Some(ExpiryTime(etExpiry, etNow + dt))
    /\ etPrev' = etValue
    /\ UNCHANGED <<cycleVars, store, storeVars, poolVars, batchVars, callVars,
                   etExpiry>>

-----------------------------------------------------------------------------
(* batch pricing: calculate_all_options_params_numba, process_asset_options,
   add_params *)

\* What a field of an option document holds: a number, a string that is
\* no number, a date string "YYYY-MM-DD" of day n, or None.
Num(n) == [tag |-> "num", n |-> n]
Text == [tag |-> "text", n |-> 0]
DateStr(d) == [tag |-> "date", n |-> d]
Absent == [tag |-> "none", n |-> 0]

Max2(x, y) == IF x >= y THEN x ELSE y

\* float(option.get(key, 0) or 0) raises ValueError on a string that is no
\* number; None and 0 give 0.0
FloatRaises(v) == v.tag \in {"text", "date"}
FloatOf(v) == IF v.tag = "num" THEN v.n ELSE 0

\* expiry_time(expiry_date) is called when LASTTRADEDATE is truthy, and
\* strptime raises unless it is a "YYYY-MM-DD" string
ExpiryRaises(v) == v.tag \in {"text", "num"}
MinutesOf(v, etnow) == IF v.tag = "date" THEN ExpiryTime(v.n, etnow) ELSE 0

\* float(oi_raw) inside its own try/except: 0.0 for None, "" and strings
OiOf(v) == IF v.tag = "num" THEN v.n ELSE 0

\* str.upper() on the option types of the model
Upper(s) == IF s = "c" THEN "C" ELSE IF s = "p" THEN "P" ELSE s
\* 0 for a call, 1 for everything else
OptionTypeInt(option) == IF Upper(option.OPTIONTYPE) = "C" THEN 0 ELSE 1

\* float(hist_vol_value or 0)
SigmaOf(hist_vol_value) == IF hist_vol_value = None THEN 0 ELSE hist_vol_value[1]

\* round(float(None), 4) taken to be 0.0
RoundFloatRaises_NoneAsZero(hist_vol_value) == FALSE

\* round(float(hist_vol_value), 4) raises TypeError on None
RoundFloatRaises(hist_vol_value) == hist_vol_value = None

\* the first loop raised for this option
FillRaises(option) ==
    \/ FloatRaises(option.UNDERLYINGSETTLEPRICE)
    \/ FloatRaises(option.STRIKE)
    \/ ExpiryRaises(option.LASTTRADEDATE)

\* the entries of the arrays for one option; T in trading minutes (T_years
\* is T_minutes over a positive constant, so both have the same sign)
Row(option, hist_vol_value, etnow) ==
    [F0 |-> FloatOf(option.UNDERLYINGSETTLEPRICE),
     K |-> FloatOf(option.STRIKE),
     T |-> MinutesOf(option.LASTTRADEDATE, etnow),
     sigma |-> SigmaOf(hist_vol_value),
     ty |-> OptionTypeInt(option),
     oi |-> OiOf(option.PREVOPENPOSITION)]

ValidMask(row) == row.T > 0 /\ row.sigma > 0 /\ row.F0 > 0 /\ row.K > 0

\* A computed number: the constant F0, or the value of the formula fn at
\* the arguments of a row (the normal distribution is not evaluated),
\* or exp(-r T) * F0 for fn = "discounted".
Const(x) == [fn |-> "const", F0 |-> x, K |-> 0, T |-> 0, sigma |-> 0, ty |-> 0, oi |-> 0]
Formula(fn, row) ==
    [fn |-> fn, F0 |-> row.F0, K |-> row.K, T |-> row.T, sigma |-> row.sigma,
     ty |-> row.ty, oi |-> IF fn = "gex" THEN row.oi ELSE 0]
Discounted(x, T) ==
    IF x = 0 THEN Const(0)
    ELSE IF T = 0 THEN Const(x)
    ELSE [fn |-> "discounted", F0 |-> x, K |-> 0, T |-> T, sigma |-> 0, ty |-> 0, oi |-> 0]

calculate_black76_numba(row) ==
    IF row.T <= 0 \/ row.sigma <= 0 \/ row.F0 <= 0 \/ row.K <= 0
    THEN Const(IF row.ty = 0 THEN Max2(row.F0 - row.K, 0) ELSE Max2(row.K - row.F0, 0))
    ELSE Formula("black76", row)

calculate_delta_numba(row) ==
    IF row.T <= 0 \/ row.F0 <= 0
    THEN Const(IF row.ty = 0 THEN (IF row.F0 > 0 THEN 1 ELSE 0)
               ELSE (IF row.F0 > 0 THEN -1 ELSE 0))
    ELSE Formula("delta", row)

calculate_gamma_numba(row) ==
    IF row.T <= 0 \/ row.sigma <= 0 \/ row.F0 <= 0 THEN Const(0)
    ELSE Formula("gamma", row)

calculate_vega_numba(row) ==
    IF row.T <= 0 \/ row.F0 <= 0 THEN Const(0) ELSE Formula("vega", row)

calculate_theta_numba(row) ==
    IF row.T <= 0 \/ row.sigma <= 0 \/ row.F0 <= 0 \/ row.K <= 0 THEN Const(0)
    ELSE Formula("theta", row)

\* sign * gamma * F^2 * OI * multiplier, 0 with no open interest
calculate_gex_numba(row) ==
    IF row.T <= 0 \/ row.F0 <= 0 \/ row.oi = 0 THEN Const(0)
    ELSE Formula("gex", row)

\* services.black76_price
black76_price(F0, K, T, sigma, option_type) ==
    IF T <= 0 \/ sigma <= 0
    THEN Discounted(IF option_type = "C" THEN Max2(F0 - K, 0) ELSE Max2(K - F0, 0), T)
    ELSE Formula("black76", [F0 |-> F0, K |-> K, T |-> T, sigma |-> sigma,
                             ty |-> IF option_type = "C" THEN 0 ELSE 1, oi |-> 0])

\* services.delta
delta(F0, K, T, sigma, option_type) ==
    IF ~(F0 > 0 /\ K > 0 /\ sigma > 0) \/ T <= 0 THEN Const(0)
    ELSE Formula("delta", [F0 |-> F0, K |-> K, T |-> T, sigma |-> sigma,
                           ty |-> IF option_type = "C" THEN 0 ELSE 1, oi |-> 0])

\* the analytics fields written for one option: the arrays start as zeros
\* and only the rows of valid_mask are filled
Enriched(option, hist_vol_value, etnow) ==
    LET row == Row(option, hist_vol_value, etnow)
        valid == ValidMask(row)
    IN [HIST_VOL |-> SigmaOf(hist_vol_value),
        IMPLIED_VOL |-> SigmaOf(hist_vol_value),
        THEORETICAL_PRICE |-> IF valid THEN calculate_black76_numba(row) ELSE Const(0),
        DELTA |-> IF valid THEN calculate_delta_numba(row) ELSE Const(0),
        GAMMA |-> IF valid THEN calculate_gamma_numba(row) ELSE Const(0),
        VEGA |-> IF valid THEN calculate_vega_numba(row) ELSE Const(0),
        THETA |-> IF valid THEN calculate_theta_numba(row) ELSE Const(0),
        GEX |-> IF valid THEN calculate_gex_numba(row) ELSE Const(0)]

\* the fields the except branch writes
Zeroed(hist_vol_value) ==
    [HIST_VOL |-> SigmaOf(hist_vol_value),
     IMPLIED_VOL |-> SigmaOf(hist_vol_value),
     THEORETICAL_PRICE |-> Const(0), DELTA |-> Const(0), GAMMA |-> Const(0),
     VEGA |-> Const(0), THETA |-> Const(0), GEX |-> Const(0)]

\* calculate_all_options_params_numba: the list it returns, or that it
\* raised (from its except branch) with the list as it then is
calculate_all_options_params_numba(options_data, hist_vol_value, etnow) ==
    IF Len(options_data) = 0
    THEN [raised |-> FALSE, out |-> options_data]
    ELSE IF \E i \in DOMAIN options_data : FillRaises(options_data[i])
    THEN IF RoundFloatRaises(hist_vol_value)
         THEN [raised |-> TRUE, out |-> options_data]
         ELSE [raised |-> FALSE,
               out |-> [i \in DOMAIN options_data |->
                          [options_data[i] EXCEPT !.params = Some(Zeroed(hist_vol_value))]]]
    ELSE IF RoundFloatRaises(hist_vol_value)
    THEN [raised |-> TRUE, out |-> options_data]
    ELSE [raised |-> FALSE,
          out |-> [i \in DOMAIN options_data |->
                     [options_data[i] EXCEPT
                        !.params = Some(Enriched(options_data[i], hist_vol_value, etnow))]]]

\* an error path that returns nothing
ErrorPathResult_Empty(options_data) == <<>>

\* "except Exception: return options_data" of process_asset_options
ErrorPathResult(options_data) == options_data

process_asset_options(options_data, hist_vol_value, etnow) ==
    LET r == calculate_all_options_params_numba(options_data, hist_vol_value, etnow)
    IN IF r.raised THEN ErrorPathResult(r.out) ELSE r.out

\* what hist_vol may return to add_params: None, zero, a positive number
HistVolValues == {None, Some(0), Some(3)}

\* process_asset_options called with the documents as they are
ProcessAssetOptionsCall ==
    /\ bpc = "idle"
    /\ \E hist_vol_value \in HistVolValues :
         /\ hvIn' = hist_vol_value
         /\ options' = docs
         /\ enriched_options' = process_asset_options(docs, hist_vol_value, etNow)
    /\ bpc' = "processed"
    /\ UNCHANGED <<cycleVars, store, storeVars, poolVars, expiryVars, callVars, docs, apRaised>>

\* add_params: the documents found in Redis are enriched and written back
\* under their keys; it returns early with no document, and its except
\* branch keeps whatever the body raises
AddParamsCall ==
    /\ bpc = "idle"
    /\ bpc' = "add_params"
    /\ apRaised' = FALSE
    /\ LET found == SelectSeq(docs, LAMBDA d : d.found)
       IN IF found = <<>>
          THEN /\ options' = found
               /\ UNCHANGED <<hvIn, enriched_options, docs>>
          ELSE \E hist_vol_value \in HistVolValues :
                 LET out == process_asset_options(found, hist_vol_value, etNow)
                     Written(d) ==
                         IF \E j \in DOMAIN out : out[j].SECID = d.SECID
                         THEN (CHOOSE o \in Range(out) : o.SECID = d.SECID)
                         ELSE d
                 IN /\ hvIn' = hist_vol_value
                    /\ options' = found
                    /\ enriched_options' = out
                    /\ docs' = [i \in DOMAIN docs |-> Written(docs[i])]
    /\ UNCHANGED <<cycleVars, store, storeVars, poolVars, expiryVars, callVars>>

\* the option documents of the model, before their SECID is set
Option(F0, K, date, type, oi, found) ==
    [SECID |-> 0, UNDERLYINGSETTLEPRICE |-> F0, STRIKE |-> K, LASTTRADEDATE |-> date,
     OPTIONTYPE |-> type, PREVOPENPOSITION |-> oi, found |-> found, params |-> None]
OptionDocs ==
    {Option(Num(100), Num(90), DateStr(66), "C", Num(5), TRUE),
     Option(Num(100), Num(110), DateStr(66), "p", Absent, TRUE),
     Option(Num(100), Num(90), DateStr(64), "C", Num(5), TRUE),
     Option(Num(100), Num(110), DateStr(64), "P", Text, TRUE),
     Option(Num(100), Text, DateStr(66), "C", Num(5), TRUE),
     Option(Num(100), Num(90), Text, "P", Num(5), TRUE),
     Option(Num(100), Num(90), DateStr(66), "X", Num(5), TRUE),
     Option(Absent, Num(90), DateStr(66), "P", Num(5), TRUE),
     Option(Num(100), Num(90), DateStr(66), "C", Num(5), FALSE)}

-----------------------------------------------------------------------------
(* actual_futures and the calendar it reads.  A datetime is a record      *)
(* [year, month, day, time], time in seconds of the day.                   *)

\* settings.MONTH_CODES, settings.ALL_CODES and settings.COMMODITIES
MONTH_CODES == (3 :> "H") @@ (6 :> "M") @@ (9 :> "U") @@ (12 :> "Z")
ALL_CODES == <<"F", "G", "H", "J", "K", "M", "N", "Q", "U", "V", "X", "Z">>
COMMODITIES == {<<"B", "R">>, <<"N", "G">>, <<"S", "U">>, <<"W", "4">>}

\* the proleptic Gregorian calendar of datetime
IsLeap(year) == year % 4 = 0 /\ (year % 100 # 0 \/ year % 400 = 0)

DaysInMonth(year, month) ==
    IF month = 2 THEN (IF IsLeap(year) THEN 29 ELSE 28)
    ELSE IF month \in {4, 6, 9, 11} THEN 30 ELSE 31

RECURSIVE DaysBeforeMonth(_, _)
DaysBeforeMonth(year, month) ==
    IF month = 1 THEN 0
    ELSE DaysBeforeMonth(year, month - 1) + DaysInMonth(year, month - 1)

\* date.toordinal(): 0001-01-01 is day 1
ToOrdinal(d) ==
    LET y == d.year - 1
    IN y * 365 + y \div 4 - y \div 100 + y \div 400
       + DaysBeforeMonth(d.year, d.month) + d.day

\* date.weekday(): Monday is 0
WeekdayOf(d) == (ToOrdinal(d) + 6) % 7

\* datetime(year, month, day): midnight of that date
Midnight(year, month, day) == [year |-> year, month |-> month, day |-> day, time |-> 0]

\* "current_date < expiry" on datetimes
DatetimeLess(a, b) ==
    \/ ToOrdinal(a) < ToOrdinal(b)
    \/ ToOrdinal(a) = ToOrdinal(b) /\ a.time < b.time

\* the second Thursday of the month
get_third_thursday_Second(year, month) ==
    LET thursdays == SortedSeq({day \in 1..DaysInMonth(year, month) :
                                    WeekdayOf(Midnight(year, month, day)) = 3})
    IN Midnight(year, month, thursdays[2])

\* thursdays[2] of the days of the month whose weekday is THURSDAY
get_third_thursday(year, month) ==
    LET thursdays == SortedSeq({day \in 1..DaysInMonth(year, month) :
                                    WeekdayOf(Midnight(year, month, day)) = 3})
    IN Midnight(year, month, thursdays[3])

\* "while first_day.weekday() >= 5: first_day += timedelta(days=1)"
RECURSIVE SkipWeekend(_)
SkipWeekend(first_day) ==
    IF WeekdayOf(first_day) >= 5
    THEN SkipWeekend([first_day EXCEPT !.day = first_day.day + 1])
    ELSE first_day

get_first_business_day(year, month) == SkipWeekend(Midnight(year, month, 1))

\* the expiry of month m under the convention of the base
ExpiryOf(base, year, m) ==
    IF base \in COMMODITIES THEN get_first_business_day(year, m)
    ELSE get_third_thursday(year, m)

\* a contract that stays selected through its expiry day
Selects_ThroughExpiryDay(current_date, expiry) ==
    ToOrdinal(current_date) <= ToOrdinal(expiry)

\* "if current_date < expiry: sel_month, sel_year = m, year; break"
Selects(current_date, expiry) == DatetimeLess(current_date, expiry)

\* the for loop over the sorted months, with its else branch: [month, year]
RECURSIVE ForMonths(_, _, _)
ForMonths(base, months, current_date) ==
    IF months = <<>>
    THEN [month |-> IF base \in COMMODITIES THEN 1 ELSE 3,
          year |-> current_date.year + 1]
    ELSE IF Selects(current_date, ExpiryOf(base, current_date.year, Head(months)))
    THEN [month |-> Head(months), year |-> current_date.year]
    ELSE ForMonths(base, Tail(months), current_date)

\* str(sel_year)[-1]
YearCode(sel_year) ==
    <<"0", "1", "2", "3", "4", "5", "6", "7", "8", "9">>[(sel_year % 10) + 1]

\* f"{base}{code}{year_code}"
actual_futures(base, current_date) ==
    LET codes == IF base \in COMMODITIES THEN ALL_CODES ELSE MONTH_CODES
        sel == ForMonths(base, SortedSeq(DOMAIN codes), current_date)
    IN base \o <<codes[sel.month], YearCode(sel.year)>>

\* actual_futures is called
ActualFuturesCall ==
    /\ afResult = None
    /\ afResult' = Some(actual_futures(afBase, afDate))
    /\ UNCHANGED <<cycleVars, store, storeVars, poolVars, expiryVars, batchVars,
                   afBase, afDate, ivArgs, ivResult, bsArgs, bsResult, fastPc>>

-----------------------------------------------------------------------------
(* The scalar pricing functions of services.py and the price kernel of     *)
(* vectorized_calculations.py, evaluated on integers.  A volatility is     *)
(* counted in millionths, a rate in hundredths, T in years; a price        *)
(* handed in is counted in whole units and a price returned in millionths  *)
(* of a unit; a value of the normal distribution, of erf and of exp is     *)
(* counted in thousandths.                                                 *)

IV_RATE == 19                \* settings.IV_RATE = 0.19
IV_TOL == 1                  \* settings.IV_TOL = 1e-6
IV_VOL_LOWER == 1            \* settings.IV_VOL_LOWER = 1e-6
IV_VOL_UPPER == 5000000      \* settings.IV_VOL_UPPER = 5.0

\* math.exp(-r * T) for the products r * T of the model
DiscountFactor(r, T) ==
    CASE r * T <= 0 -> 1000
      [] r * T = 19 -> 827
      [] r * T = 76 -> 468

\* math.sqrt(T) for T = 1 and T = 4
SqrtOf(T) == IF T = 4 THEN 2 ELSE 1

\* math.log(F0 / K) for the prices 100 and 739 of the model: 739 / 100 is
\* e^2 to four digits
LogRatio(F0, K) == IF F0 = K THEN 0 ELSE IF F0 > K THEN 2 ELSE -2

\* d1 = (log(F0 / K) + 0.5 * sigma ** 2 * T) / (sigma * sqrt(T)), rounded
\* down to a whole number
D1Of(F0, K, T, sigma) ==
    (LogRatio(F0, K) * 1000000) \div (sigma * SqrtOf(T))
    + (sigma * SqrtOf(T)) \div 2000000

\* d2 = d1 - sigma * sqrt(T)
D2Of(F0, K, T, sigma) == D1Of(F0, K, T, sigma) - (sigma * SqrtOf(T)) \div 1000000

\* math.erf(x / sqrt(2)) at whole x, an odd function
Erf(x) ==
    LET table == <<682, 954, 998>>
        a == IF x < 0 THEN -x ELSE x
        v == IF a = 0 THEN 0 ELSE IF a > 3 THEN 1000 ELSE table[a]
    IN IF x < 0 THEN -v ELSE v

\* scipy.stats.norm.cdf at whole x
norm_cdf(x) ==
    LET table == <<841, 977, 999>>
    IN IF x = 0 THEN 500
       ELSE IF x > 3 THEN 1000
       ELSE IF x > 0 THEN table[x]
       ELSE IF x < -3 THEN 0
       ELSE 1000 - table[-x]

\* "return 0.5 * (1.0 + math.erf(x / math.sqrt(2.0)))"
norm_cdf_numba(x) == (1000 + Erf(x)) \div 2

\* services.black76_price, as a number
Black76Price(F0, K, T, r, sigma, option_type) ==
    IF T <= 0 \/ sigma <= 0
    THEN LET intrinsic == IF option_type = "C" THEN Max2(F0 - K, 0) ELSE Max2(K - F0, 0)
         IN DiscountFactor(r, T) * intrinsic * 1000
    ELSE LET d1 == D1Of(F0, K, T, sigma)
             d2 == D2Of(F0, K, T, sigma)
             df == DiscountFactor(r, T)
         IN IF option_type = "C"
            THEN df * (F0 * norm_cdf(d1) - K * norm_cdf(d2))
            ELSE df * (K * norm_cdf(-d2) - F0 * norm_cdf(-d1))

\* a kernel whose put price takes both terms at d2
Black76Numba_PutAtD2(F0, K, T, r, sigma, option_type_int, d1, d2) ==
    IF T <= 0 \/ sigma <= 0 \/ F0 <= 0 \/ K <= 0
    THEN (IF option_type_int = 0 THEN Max2(F0 - K, 0) ELSE Max2(K - F0, 0)) * 1000000
    ELSE LET discount == DiscountFactor(r, T)
         IN IF option_type_int = 0
            THEN discount * (F0 * norm_cdf_numba(d1) - K * norm_cdf_numba(d2))
            ELSE discount * (K * norm_cdf_numba(-d2) - F0 * norm_cdf_numba(-d2))

\* one element of calculate_black76_numba, as a number, with the d1 and d2
\* that calculate_d1_d2_numba computed for the row
Black76Numba(F0, K, T, r, sigma, option_type_int, d1, d2) ==
    IF T <= 0 \/ sigma <= 0 \/ F0 <= 0 \/ K <= 0
    THEN (IF option_type_int = 0 THEN Max2(F0 - K, 0) ELSE Max2(K - F0, 0)) * 1000000
    ELSE LET discount == DiscountFactor(r, T)
         IN IF option_type_int = 0
            THEN discount * (F0 * norm_cdf_numba(d1) - K * norm_cdf_numba(d2))
            ELSE discount * (K * norm_cdf_numba(-d2) - F0 * norm_cdf_numba(-d1))

\* one element of each array calculate_d1_d2_numba returns
D1D2Numba(F0, K, T, sigma) ==
    IF T <= 0 \/ sigma <= 0 \/ F0 <= 0 \/ K <= 0
    THEN [d1 |-> 0, d2 |-> 0]
    ELSE [d1 |-> D1Of(F0, K, T, sigma), d2 |-> D2Of(F0, K, T, sigma)]

\* the call and the put of one (F0, K, T, r, sigma) are priced by
\* black76_price and by the kernel
Black76Call ==
    /\ bsArgs # <<>>
    /\ bsResult = None
    /\ LET a == bsArgs
           d == D1D2Numba(a.F0, a.K, a.T, a.sigma)
       IN bsResult' = Some(
              [call |-> Black76Price(a.F0, a.K, a.T, a.r, a.sigma, "C"),
               put |-> Black76Price(a.F0, a.K, a.T, a.r, a.sigma, "P"),
               call_numba |-> Black76Numba(a.F0, a.K, a.T, a.r, a.sigma, 0, d.d1, d.d2),
               put_numba |-> Black76Numba(a.F0, a.K, a.T, a.r, a.sigma, 1, d.d1, d.d2)])
    /\ UNCHANGED <<cycleVars, store, storeVars, poolVars, expiryVars, batchVars,
                   afBase, afDate, afResult, ivArgs, ivResult, bsArgs, fastPc>>

\* a float: NaN or a number
NaN == [nan |-> TRUE, value |-> 0]
Float(v) == [nan |-> FALSE, value |-> v]

\* every option type accepted
ValidOptionType_Any(option_type) == TRUE

\* "option_type not in ('C', 'P')", negated
ValidOptionType(option_type) == option_type \in {"C", "P"}

\* the volatilities of the bracket brentq may return in the model
VolSamples == {IV_VOL_LOWER, 1000000, IV_VOL_UPPER}

\* brentq(objective, a, b): ValueError when f(a) and f(b) have the same
\* sign, f(a) * f(b) > 0; else a point of [a, b], or RuntimeError when
\* maxiter iterations did not converge
Brentq(f_a, f_b) ==
    IF (f_a > 0 /\ f_b > 0) \/ (f_a < 0 /\ f_b < 0)
    THEN {[raised |-> "ValueError", root |-> 0]}
    ELSE {[raised |-> "", root |-> vol] : vol \in VolSamples}
         \cup {[raised |-> "RuntimeError", root |-> 0]}

\* implied_volatility: the set of values it may return
implied_volatility(prev_settle_price, underlying_price, strike, expiry_time, rate, option_type) ==
    IF expiry_time < 0 \/ underlying_price <= 0 \/ strike <= 0 THEN {NaN}
    ELSE IF ~ValidOptionType(option_type) THEN {NaN}
    ELSE IF expiry_time = 0
    THEN LET intrinsic == Black76Price(underlying_price, strike, expiry_time,
                                       rate, 1, option_type)
             diff == prev_settle_price - intrinsic
         IN {IF (IF diff < 0 THEN -diff ELSE diff) < IV_TOL THEN Float(0) ELSE NaN}
    ELSE LET objective(vol) ==
                 Black76Price(underlying_price, strike, expiry_time, rate, vol,
                              option_type) - prev_settle_price
         IN {IF iv.raised # "" THEN NaN
             ELSE IF iv.root >= 0 THEN Float(iv.root) ELSE NaN :
                 iv \in Brentq(objective(IV_VOL_LOWER), objective(IV_VOL_UPPER))}

\* implied_volatility is called
ImpliedVolatilityCall ==
    /\ ivArgs # <<>>
    /\ ivResult = None
    /\ \E v \in implied_volatility(ivArgs.prev_settle_price, ivArgs.underlying_price,
                                   ivArgs.strike, ivArgs.expiry_time, ivArgs.rate,
                                   ivArgs.option_type) :
         ivResult' = Some(v)
    /\ UNCHANGED <<cycleVars, store, storeVars, poolVars, expiryVars, batchVars,
                   afBase, afDate, afResult, ivArgs, bsArgs, bsResult, fastPc>>

-----------------------------------------------------------------------------
(* Initial states *)

At(day, h, m) == day * 1440 + h * 60 + m

\* the rows a table holds after an earlier run fetched Monday (day 63)
\* up to 15:00
MondayRows ==
    {[timestamp |-> At(63, 10, 0), close |-> FeedClose(At(63, 10, 0)), ingested_at |-> At(63, 16, 0)],
     [timestamp |-> At(63, 15, 0), close |-> FeedClose(At(63, 15, 0)), ingested_at |-> At(63, 16, 0)]}

PoolAtRest ==
    /\ max_connections = MaxPoolSize
    /\ created_connections = 0
    /\ pool = <<>>
    /\ open = {}
    /\ held = [t \in PoolTasks |-> None]
    /\ ppc = [t \in PoolTasks |-> "idle"]
    /\ closing = FALSE
    /\ nextConn = 1
    /\ lastExit = "none"

StoreAtRest ==
    /\ lastRead = [op |-> "none", rows |-> <<>>, value |-> None, asof |-> None,
                   latest |-> {}, top |-> None, appended |-> FALSE]
    /\ appended = FALSE
    /\ lastWrite = [s \in Series |-> {}]
    /\ saves = 0

\* expiry_time has not been called
ExpiryAtRest ==
    /\ etNow = 0
    /\ etExpiry = 0
    /\ etValue = None
    /\ etPrev = None

\* no option batch has been priced
BatchAtRest ==
    /\ docs = <<>>
    /\ options = <<>>
    /\ hvIn = None
    /\ bpc = "idle"
    /\ enriched_options = <<>>
    /\ apRaised = FALSE

\* actual_futures has not been called
FuturesAtRest ==
    /\ afBase = <<>>
    /\ afDate = [year |-> 0, month |-> 0, day |-> 0, time |-> 0]
    /\ afResult = None

\* no scalar pricing function has been called
PricesAtRest ==
    /\ ivArgs = <<>>
    /\ ivResult = None
    /\ bsArgs = <<>>
    /\ bsResult = None

\* no getdb_candles_fast call is under way
FastAtRest == fastPc = <<>>

CallsAtRest == FuturesAtRest /\ PricesAtRest /\ FastAtRest

\* lifespan has not started its tasks
CycleAtRest(ph, pc) ==
    /\ phase = ph
    /\ cycle = 1
    /\ outerSem = OuterSemPermits
    /\ lcPc = [a \in assets |-> pc]
    /\ end_date = [a \in assets |-> now]
    /\ last_date = [a \in assets |-> None]
    /\ dates = [a \in assets |-> <<>>]
    /\ task = [a \in assets |-> <<>>]
    /\ sem = [a \in assets |-> SemPermits]
    /\ requests = [a \in assets |-> {}]
    /\ lcRaised = [a \in assets |-> FALSE]
    /\ failed = [a \in assets |-> {}]
    /\ prevFailed = [a \in assets |-> {}]
    /\ apPc = [a \in assets |-> "none"]
    /\ hv = [a \in assets |-> None]

\* The application starts on Tuesday (day 64) at noon; every table holds
\* Monday's bars; the feed and the store may fail in every way.
Init ==
    /\ now = At(64, 12, 0)
    /\ assets = {SiZ5, SiH6}
    /\ store = [s \in Series |-> MondayRows]
    /\ feedModes = {"ok", "empty", "error", "savefail"}
    /\ dbFailure = FALSE
    /\ CycleAtRest("startup", "none")
    /\ StoreAtRest
    /\ CallsAtRest
    /\ ExpiryAtRest
    /\ BatchAtRest
    /\ PoolAtRest

Next ==
    \/ GetOptions
    \/ GetOptionsFails
    \/ \E a \in assets : LoadAssetCandles(a)
    \/ \E a \in assets : LoadCandlesBegin(a)
    \/ \E a \in assets : \E i \in DOMAIN task[a] : TaskAcquire(a, i)
    \/ \E a \in assets : \E i \in DOMAIN task[a] : TaskFetched(a, i)
    \/ \E a \in assets : \E i \in DOMAIN task[a] : TaskSaved(a, i)
    \/ \E a \in assets : LoadCandlesEnd(a)
    \/ GatherCandles
    \/ \E a \in assets : AddAssetParams(a)
    \/ \E a \in assets : AddParamsHistVol(a)
    \/ GatherParams

Spec == Init /\ [][Next]_vars

\* The cycles of one asset over the restarts of the application, the
\* first on Wednesday (day 65) at noon.
InitCycles ==
    /\ now = At(65, 12, 0)
    /\ assets \in {{SiZ5}, {SBER}}
    /\ store = [s \in Series |-> MondayRows]
    /\ feedModes = {"ok", "empty", "error", "savefail"}
    /\ dbFailure = FALSE
    /\ CycleAtRest("startup", "none")
    /\ StoreAtRest
    /\ CallsAtRest
    /\ ExpiryAtRest
    /\ BatchAtRest
    /\ PoolAtRest

NextCycles ==
    \/ Next
    \/ Restart

SpecCycles == InitCycles /\ [][NextCycles]_vars

\* The listing step of load_candles for every resume point and clock: one
\* asset whose table is empty or ends at a bar D of the last two weeks, a
\* clock on any day of week 10 (days 63..69), a store query that may raise.
ResumePoints ==
    {At(d, h, m) : d \in {d \in 56..69 : d % 7 < 5}, h \in {10, 23}, m \in {49}}
Clocks == {At(d, h, 0) : d \in 63..69, h \in {8, 12}}

InitDates ==
    /\ now \in Clocks
    /\ assets \in {{SiZ5}, {SBER}}
    /\ \E rows \in {{}} \cup {{[timestamp |-> t, close |-> FeedClose(t), ingested_at |-> t + 60]} :
                                 t \in {r \in ResumePoints : r + 60 <= now}} :
         store = [s \in Series |-> rows]
    /\ feedModes = {"ok", "empty", "error", "savefail"}
    /\ dbFailure \in BOOLEAN
    /\ CycleAtRest("candles", "created")
    /\ StoreAtRest
    /\ CallsAtRest
    /\ ExpiryAtRest
    /\ BatchAtRest
    /\ PoolAtRest

NextDates ==
    \/ \E a \in assets : LoadAssetCandles(a)
    \/ \E a \in assets : LoadCandlesBegin(a)
    \/ \E a \in assets : \E i \in DOMAIN task[a] : TaskAcquire(a, i)

SpecDates == InitDates /\ [][NextDates]_vars

\* One load_candles call with more dates than permits: the table ends on
\* Friday (day 53) 15:00 and the clock stands SemGapDays days later; the
\* feed answers every request of the call in the same way.
InitSem ==
    /\ now = At(53 + SemGapDays, 12, 0)
    /\ assets = {SBER}
    /\ store = [s \in Series |->
                  {[timestamp |-> At(53, 15, 0), close |-> FeedClose(At(53, 15, 0)),
                    ingested_at |-> At(53, 16, 0)]}]
    /\ feedModes \in {{"ok"}, {"empty"}, {"error"}}
    /\ dbFailure = FALSE
    /\ CycleAtRest("candles", "created")
    /\ StoreAtRest
    /\ CallsAtRest
    /\ ExpiryAtRest
    /\ BatchAtRest
    /\ PoolAtRest

NextSem ==
    \/ \E a \in assets : LoadAssetCandles(a)
    \/ \E a \in assets : LoadCandlesBegin(a)
    \/ \E a \in assets : \E i \in DOMAIN task[a] : TaskAcquire(a, i)
    \/ \E a \in assets : \E i \in DOMAIN task[a] : TaskFetched(a, i)
    \/ \E a \in assets : \E i \in DOMAIN task[a] : TaskSaved(a, i)
    \/ \E a \in assets : LoadCandlesEnd(a)

SpecSem == InitSem /\ [][NextSem]_vars

\* The store: an empty table on Monday (day 63) 16:00.
InitStore ==
    /\ now = At(63, 16, 0)
    /\ assets = {SBER}
    /\ store = [s \in Series |-> {}]
    /\ feedModes = {"ok"}
    /\ dbFailure = FALSE
    /\ CycleAtRest("serving", "none")
    /\ StoreAtRest
    /\ CallsAtRest
    /\ ExpiryAtRest
    /\ BatchAtRest
    /\ PoolAtRest

NextStore ==
    \/ \E c \in CandleBatches : SaveCandles(StoreSeries, c)
    \/ MergeParts(StoreSeries)
    \/ ReadCloses(StoreSeries)
    \/ ReadCandles(StoreSeries)
    \/ HistVolCall(StoreSeries)

SpecStore == InitStore /\ [][NextStore]_vars

\* The pool: a fresh ClickHouseConnectionPool(max_connections).
InitPool ==
    /\ now = At(63, 16, 0)
    /\ assets = {SBER}
    /\ store = [s \in Series |-> {}]
    /\ feedModes = {"ok"}
    /\ dbFailure = FALSE
    /\ CycleAtRest("serving", "none")
    /\ StoreAtRest
    /\ CallsAtRest
    /\ ExpiryAtRest
    /\ BatchAtRest
    /\ max_connections \in 1..MaxPoolSize
    /\ created_connections = 0
    /\ pool = <<>>
    /\ open = {}
    /\ held = [t \in PoolTasks |-> None]
    /\ ppc = [t \in PoolTasks |-> "idle"]
    /\ closing = FALSE
    /\ nextConn = 1
    /\ lastExit = "none"

NextPool ==
    \/ \E t \in PoolTasks : EnterConnection(t)
    \/ \E t \in PoolTasks : WaitConnection(t)
    \/ \E t \in PoolTasks : \E raised \in BOOLEAN : ExitConnection(t, raised)
    \/ CloseAll
    \/ CloseAllResume

SpecPool == InitPool /\ [][NextPool]_vars

\* expiry_time called as the clock runs from Sunday 2025-11-02 00:00 over
\* the holidays of 3 and 4 November, for an expiry date that is past, a
\* Sunday, a holiday or a trading day.
InitExpiry ==
    /\ now = At(63, 16, 0)
    /\ assets = {SBER}
    /\ store = [s \in Series |-> {}]
    /\ feedModes = {"ok"}
    /\ dbFailure = FALSE
    /\ CycleAtRest("serving", "none")
    /\ StoreAtRest
    /\ CallsAtRest
    /\ PoolAtRest
    /\ BatchAtRest
    /\ etNow = ExpiryClockStart
    /\ etExpiry \in {61, 62, 64, 66}
    /\ etValue = None
    /\ etPrev = None

NextExpiry == \E dt \in {0, 30, 24 * 3600} : ExpiryTimeCall(dt)

SpecExpiry == InitExpiry /\ [][NextExpiry]_vars

\* Pricing on Wednesday 2025-11-05 at noon: up to MaxBatch documents of
\* one asset, live (expiry 6 November), expired (4 November), with an
\* unparseable strike or date, with an unknown option type, without a
\* settle price, or gone from Redis.
InitBatch ==
    /\ now = At(65, 12, 0)
    /\ assets = {SBER}
    /\ store = [s \in Series |-> {}]
    /\ feedModes = {"ok"}
    /\ dbFailure = FALSE
    /\ CycleAtRest("serving", "none")
    /\ StoreAtRest
    /\ CallsAtRest
    /\ PoolAtRest
    /\ etNow = DayStart(65) + TimeOfDay(12, 0)
    /\ etExpiry = 0
    /\ etValue = None
    /\ etPrev = None
    /\ \E n \in 0..MaxBatch : \E f \in [1..n -> OptionDocs] :
         docs = [i \in 1..n |-> [f[i] EXCEPT !.SECID = i]]
    /\ options = <<>>
    /\ hvIn = None
    /\ bpc = "idle"
    /\ enriched_options = <<>>
    /\ apRaised = FALSE

NextBatch ==
    \/ ProcessAssetOptionsCall
    \/ AddParamsCall

SpecBatch == InitBatch /\ [][NextBatch]_vars


\* actual_futures for the bases Si (third Thursday of the quarterly
\* months) and BR (first business day of every month), on every date of
\* FuturesYears years from 2028, a leap year, at midnight, at noon and in
\* the last second of the day.
FuturesYears == 3

InitFutures ==
    /\ now = At(65, 12, 0)
    /\ assets = {SiZ5}
    /\ store = [s \in Series |-> {}]
    /\ feedModes = {"ok"}
    /\ dbFailure = FALSE
    /\ CycleAtRest("serving", "none")
    /\ StoreAtRest
    /\ PoolAtRest
    /\ ExpiryAtRest
    /\ BatchAtRest
    /\ PricesAtRest
    /\ FastAtRest
    /\ afBase \in {<<"S", "i">>, <<"B", "R">>}
    /\ \E year \in 2028..(2027 + FuturesYears) : \E month \in 1..12 :
         \E day \in 1..DaysInMonth(year, month) :
           \E time \in {0, TimeOfDay(12, 0), TimeOfDay(23, 59) + 59} :
             afDate = [year |-> year, month |-> month, day |-> day, time |-> time]
    /\ afResult = None

NextFutures == ActualFuturesCall

SpecFutures == InitFutures /\ [][NextFutures]_vars


\* One call of implied_volatility, or one option pair priced by both
\* pricing functions.  The prices handed in are 0, 100 and 739; an
\* observed price is in millionths: nothing, one millionth, the intrinsic
\* value of 739 against 100, one millionth above it, a value between the
\* prices at both ends of the bracket, and a value above every price.
InitPrices ==
    /\ now = At(65, 12, 0)
    /\ assets = {SBER}
    /\ store = [s \in Series |-> {}]
    /\ feedModes = {"ok"}
    /\ dbFailure = FALSE
    /\ CycleAtRest("serving", "none")
    /\ StoreAtRest
    /\ PoolAtRest
    /\ ExpiryAtRest
    /\ BatchAtRest
    /\ FuturesAtRest
    /\ FastAtRest
    /\ ivResult = None
    /\ bsResult = None
    /\ \/ /\ bsArgs = <<>>
          /\ ivArgs \in [prev_settle_price : {0, 1, 639000000, 639000001, 550000000,
                                              2000000000},
                         underlying_price : {0, 100, 739},
                         strike : {0, 100, 739},
                         expiry_time : {-1, 0, 1},
                         rate : {IV_RATE},
                         option_type : {"C", "P", "X"}]
       \/ /\ ivArgs = <<>>
          /\ bsArgs \in [F0 : {100, 739}, K : {100, 739}, T : {0, 1, 4},
                         r : {0, IV_RATE}, sigma : {0, 1000000, 2000000}]

NextPrices ==
    \/ ImpliedVolatilityCall
    \/ Black76Call

SpecPrices == InitPrices /\ [][NextPrices]_vars


\* NumFastCalls requests of the candles endpoint call getdb_candles_fast
\* at once, on a pool of 1 to MaxPoolSize connections.
NumFastCalls == 2

InitFast ==
    /\ now = At(65, 12, 0)
    /\ assets = {SBER}
    /\ store = [s \in Series |-> {}]
    /\ feedModes = {"ok"}
    /\ dbFailure = FALSE
    /\ CycleAtRest("serving", "none")
    /\ StoreAtRest
    /\ ExpiryAtRest
    /\ BatchAtRest
    /\ FuturesAtRest
    /\ PricesAtRest
    /\ max_connections \in 1..MaxPoolSize
    /\ created_connections = 0
    /\ pool = <<>>
    /\ open = {}
    /\ held = [t \in 1..(2 * NumFastCalls) |-> None]
    /\ ppc = [t \in 1..(2 * NumFastCalls) |-> "idle"]
    /\ closing = FALSE
    /\ nextConn = 1
    /\ lastExit = "none"
    /\ fastPc = [r \in 1..NumFastCalls |-> "start"]

NextFast ==
    \/ \E r \in FastCalls : FastEnter(r)
    \/ \E r \in FastCalls : \E t \in DOMAIN ppc : FastResume(r, t)
    \/ \E r \in FastCalls : FastCheck(r)
    \/ \E r \in FastCalls : FastViewDone(r)
    \/ \E r \in FastCalls : FastCheckExit(r)
    \/ \E r \in FastCalls : FastQuery(r)
    \/ \E r \in FastCalls : FastQueryDone(r)

SpecFast == InitFast /\ [][NextFast]_vars


-----------------------------------------------------------------------------
(* The claims *)

C2_FailedDayRequestedAgain ==
    \A a \in assets :
        cycle >= 2 /\ lcPc[a] = "done" =>
            \A d \in prevFailed[a] : \E r \in requests[a] : DateOf(r.from) = d

\* C3: with the latest stored bar at D, no request of the cycle has a
\* minute <= D in its [from, till] range.
C3_NoStoredMinuteRequested ==
    \A a \in assets :
        last_date[a] # None =>
            \A r \in requests[a] : r.from > last_date[a][1]

\* C4: whatever days fail, load_candles returns without raising and only
\* when every per-day task has settled; a day that was fetched and saved
\* has its bars in the table; and while tasks are unsettled one of them
\* is running or can take a permit (none is cancelled or left behind).
C4_FailuresIsolated ==
    \A a \in assets :
        /\ lcPc[a] = "done" =>
              /\ ~lcRaised[a]
              /\ AllSettled(a)
        /\ \A i \in DOMAIN task[a] :
              task[a][i] = "stored" =>
                  \A t \in FeedTimes(dates[a][i], end_date[a]) :
                      \E r \in store[BaseUnderlying(a)] :
                          r.timestamp = t /\ r.ingested_at = end_date[a]
        /\ (lcPc[a] = "gather" /\ ~AllSettled(a)) =>
              \/ InSection(a) > 0
              \/ sem[a] > 0

\* load_candles has returned; one day raised, another was stored
C4_Witness ==
    \E a \in assets :
        /\ lcPc[a] = "done"
        /\ \E i, j \in DOMAIN task[a] :
              task[a][i] = "error" /\ task[a][j] = "stored"

\* C5: at most 10 per-day tasks of a load_candles call are inside the
\* section the semaphore guards; every task that leaves it, however it
\* ends, gives its permit back, so that all 10 are free when the call
\* returns.
C5_SemaphoreBound ==
    \A a \in assets :
        /\ InSection(a) <= SemPermits
        /\ sem[a] + InSection(a) = SemPermits
        /\ lcPc[a] = "done" => sem[a] = SemPermits

\* all permits are taken and a task waits for one
C5_Witness ==
    \E a \in assets :
        /\ InSection(a) = SemPermits
        /\ \E i \in DOMAIN task[a] : task[a][i] = "pending"

\* C6: a read of the price series returns at most one bar per timestamp,
\* and it is the bar last written for that timestamp.
C6_ReadOneBarPerTimestamp ==
    lastRead.op \in {"getdb_closes", "getdb_candles"} =>
        /\ \A i, j \in DOMAIN lastRead.rows :
              i # j => lastRead.rows[i].timestamp # lastRead.rows[j].timestamp
        /\ \A i \in DOMAIN lastRead.rows :
              [timestamp |-> lastRead.rows[i].timestamp,
               close |-> lastRead.rows[i].close] \in lastRead.latest

\* C7: after a save that only added bars later than every stored bar, a
\* hist_vol call that returns a value computes it over the window that
\* ends at the latest stored bar.
C7_HistVolWindowEndsAtLatestBar ==
    (lastRead.op = "hist_vol" /\ lastRead.appended /\ lastRead.value # None) =>
        lastRead.asof = lastRead.top

\* C8: the number of open store connections never exceeds max_connections.
C8_OpenWithinMax == Cardinality(open) <= max_connections

\* C9: every open client is held by exactly one task or idle in the pool
\* exactly once, never both; a task outside the body of get_db_connection
\* holds none, however the body ended.
C9_ConnectionsAccounted ==
    /\ \A c \in open : Cardinality(Holders(c)) + Occurrences(pool, c) = 1
    /\ \A t \in PoolTasks :
          held[t] # None <=> ppc[t] = "body"
    /\ \A t \in PoolTasks : held[t] # None => held[t][1] \in open

\* a body ended by raising, its client is idle in the pool, another task
\* holds a client
C9_Witness ==
    /\ lastExit = "raised"
    /\ pool # <<>>
    /\ \E t \in PoolTasks : held[t] # None

\* C10: every date of the list load_candles builds, and every request it
\* issues, is for a Monday-to-Friday date.
C10_OnlyWeekdaysListed ==
    \A a \in assets :
        /\ \A i \in DOMAIN dates[a] : Weekday(dates[a][i]) < 5
        /\ \A r \in requests[a] : Weekday(r.from) < 5


\* C11: whenever the table of the asset's series holds a bar, the start
\* date load_candles resumes from is one minute after the latest stored
\* timestamp; the eight-week seed is used only with an empty table.
C11_ResumeAfterLatestBar ==
    \A a \in assets :
        (lcPc[a] \in {"gather", "done"} /\ store[BaseUnderlying(a)] # {}) =>
            StartDate(last_date[a], end_date[a]) =
                SetMax({r.timestamp : r \in store[BaseUnderlying(a)]}) + 1


C13_MalformedRecordIsolated ==
    (bpc = "processed" /\ hvIn # None) =>
        \A i \in DOMAIN options :
            (/\ FillRaises(options[i])
             /\ \A j \in DOMAIN options : j # i => ~FillRaises(options[j])) =>
                LET without == [j \in 1..(Len(options) - 1) |->
                                   IF j < i THEN options[j] ELSE options[j + 1]]
                    rest == process_asset_options(without, hvIn, etNow)
                IN \A j \in DOMAIN options :
                       j # i => enriched_options[j].params =
                                    rest[IF j < i THEN j ELSE j - 1].params

\* C14: a record whose option type is neither C nor P gets no price and
\* no Greeks computed by the pricing formulas.
C14_InvalidOptionTypeFailed ==
    bpc = "processed" =>
        \A i \in DOMAIN options :
            (Upper(options[i].OPTIONTYPE) \notin {"C", "P"}
                /\ enriched_options[i].params # None) =>
                /\ enriched_options[i].params[1].THEORETICAL_PRICE.fn = "const"
                /\ enriched_options[i].params[1].DELTA.fn = "const"
                /\ enriched_options[i].params[1].GAMMA.fn = "const"
                /\ enriched_options[i].params[1].VEGA.fn = "const"
                /\ enriched_options[i].params[1].THETA.fn = "const"

\* C15: process_asset_options returns as many records as it was given,
\* each the input record of the same index, on every path.
C15_BatchLengthAndOrder ==
    bpc = "processed" =>
        /\ Len(enriched_options) = Len(options)
        /\ \A i \in DOMAIN options :
               /\ i \in DOMAIN enriched_options
               /\ [enriched_options[i] EXCEPT !.params = None] = options[i]

\* a batch of two was priced on the error path (hist_vol_value None)
C15_Witness ==
    /\ bpc = "processed"
    /\ hvIn = None
    /\ Len(options) >= 2
    /\ Len(enriched_options) >= 2

\* C16: every invalid row of a batch gets the degenerate-case price, the
\* discounted intrinsic value black76_price returns for it.
C16_InvalidRowIntrinsicPrice ==
    (bpc = "processed" /\ \A j \in DOMAIN options : ~FillRaises(options[j])) =>
        \A i \in DOMAIN options :
            LET row == Row(options[i], hvIn, etNow)
            IN (enriched_options[i].params # None /\ ~ValidMask(row)) =>
                   enriched_options[i].params[1].THEORETICAL_PRICE =
                       Discounted(IF row.ty = 0 THEN Max2(row.F0 - row.K, 0)
                                  ELSE Max2(row.K - row.F0, 0), row.T)

\* C17: in the degenerate case (T <= 0 or sigma <= 0) the delta of a
\* record is +1 or -1 times the discount factor when F0 > 0 and 0
\* otherwise, with gamma, vega and theta 0, in the batch and in delta().
C17_DegenerateDelta ==
    (bpc = "processed" /\ \A j \in DOMAIN options : ~FillRaises(options[j])) =>
        \A i \in DOMAIN options :
            LET row == Row(options[i], hvIn, etNow)
                expected == IF row.F0 > 0
                            THEN Discounted(IF row.ty = 0 THEN 1 ELSE -1, row.T)
                            ELSE Const(0)
            IN (enriched_options[i].params # None /\ (row.T <= 0 \/ row.sigma <= 0)) =>
                   /\ enriched_options[i].params[1].DELTA = expected
                   /\ enriched_options[i].params[1].GAMMA = Const(0)
                   /\ enriched_options[i].params[1].VEGA = Const(0)
                   /\ enriched_options[i].params[1].THETA = Const(0)
                   /\ delta(row.F0, row.K, row.T, row.sigma,
                            IF row.ty = 0 THEN "C" ELSE "P") = expected

\* C18: expiry_time returns an integer that is never negative, whatever
\* the clock shows.
C18_ExpiryTimeNonNegative ==
    etValue # None => etValue[1] \in Nat

\* expiry_time was called inside the afternoon clearing of a trading day
\* before the expiry day and returned a positive number
C18_Witness ==
    /\ etValue # None
    /\ etValue[1] > 0
    /\ DayOfSeconds(etNow) = 65
    /\ TimeOfSeconds(etNow) > TimeOfDay(14, 0)
    /\ TimeOfSeconds(etNow) < TimeOfDay(14, 5)

\* C19: for a fixed expiry date, a later call of expiry_time never returns
\* more than an earlier one.
C19_ExpiryTimeNonIncreasing ==
    (etValue # None /\ etPrev # None) => etValue[1] <= etPrev[1]

\* two calls a day apart across the holidays, both before the expiry
C19_Witness ==
    /\ etValue # None
    /\ etPrev # None
    /\ etExpiry = 66
    /\ DayOfSeconds(etNow) = 65
    /\ TimeOfSeconds(etNow) > TRADING_END
    /\ etValue[1] > 0
    /\ etValue[1] < etPrev[1]

\* C20: expiry_time returns 0 when the clock is on the expiry date at or
\* after EXPIRY_END, or on any later date.
C20_ExpiryTimeZeroAfterClose ==
    (/\ etValue # None
     /\ \/ DayOfSeconds(etNow) > etExpiry
        \/ DayOfSeconds(etNow) = etExpiry /\ TimeOfSeconds(etNow) >= EXPIRY_END) =>
        etValue[1] = 0

\* the call at EXPIRY_END of the expiry day, after a call that returned a
\* positive number
C20_Witness ==
    /\ etValue = Some(0)
    /\ etPrev # None
    /\ etPrev[1] > 0
    /\ DayOfSeconds(etNow) = etExpiry
    /\ TimeOfSeconds(etNow) = EXPIRY_END


\* C21: a weekday of the holiday set between today and the expiry date
\* adds nothing to expiry_time: the result is the sum over the days of
\* the walk that are not holidays, also when the holiday is today or the
\* expiry day.
C21_HolidayContributesNothing ==
    etValue # None =>
        LET today == DayOfSeconds(etNow)
            kept == {d \in today..etExpiry : d \notin HOLIDAYS}
            Sum[D \in SUBSET kept] ==
                IF D = {} THEN 0
                ELSE LET d == CHOOSE x \in D : TRUE
                     IN (IF d % 7 >= 5 THEN 0 ELSE SessionMinutes(d, etExpiry, etNow))
                        + Sum[D \ {d}]
        IN /\ etValue[1] = Sum[kept]
           /\ \A d \in (today..etExpiry) \cap HOLIDAYS :
                  SessionMinutes(d, etExpiry, etNow) = 0

\* expiry_time was called on the holiday of 3 November during the session
\* hours, for the expiry of 6 November, and returned the minutes of 5 and
\* 6 November
C21_Witness ==
    /\ etValue # None
    /\ etExpiry = 66
    /\ DayOfSeconds(etNow) = 63
    /\ TimeOfSeconds(etNow) > TRADING_START
    /\ TimeOfSeconds(etNow) < TRADING_END
    /\ etValue[1] = SessionMinutes(65, 66, etNow) + SessionMinutes(66, 66, etNow)
    /\ etValue[1] > 0

\* C27: for a clock on a whole minute, expiry_time is the number of
\* minutes m >= now that lie on a day of the walk that is no weekend and
\* no holiday, inside the session of that day and outside every clearing
\* window.
C27_CountsTradingMinutes ==
    (etValue # None /\ etNow % 60 = 0) =>
        LET nowMinute == etNow \div 60
            today == DayOfSeconds(etNow)
            Open(d) == d * 1440 + TRADING_START \div 60
            Close(d) == d * 1440 + (IF d = etExpiry THEN EXPIRY_END ELSE TRADING_END) \div 60
            InClearing(m) ==
                \E k \in DOMAIN CLEARING_PERIODS :
                    /\ m % 1440 >= CLEARING_PERIODS[k][1] \div 60
                    /\ m % 1440 < CLEARING_PERIODS[k][2] \div 60
            Counted(d) ==
                IF d % 7 >= 5 \/ d \in HOLIDAYS THEN {}
                ELSE {m \in Open(d)..(Close(d) - 1) : m >= nowMinute /\ ~InClearing(m)}
        IN etValue[1] = Cardinality(UNION {Counted(d) : d \in today..etExpiry})

\* expiry_time was called on a whole minute inside the evening clearing of
\* the day before the expiry
C27_Witness ==
    /\ etValue # None
    /\ etExpiry = 66
    /\ DayOfSeconds(etNow) = 65
    /\ TimeOfSeconds(etNow) = TimeOfDay(19, 0)
    /\ etValue[1] = 285 + 585

\* C30: no calendar day adds more than MINUTES_PER_DAY minutes to
\* expiry_time.
C30_DayWithinMinutesPerDay ==
    etValue # None =>
        \A d \in DayOfSeconds(etNow)..etExpiry :
            SessionMinutes(d, etExpiry, etNow) <= MINUTES_PER_DAY


\* C29: two assets of the same base underlying, that is of the same
\* candle table, never run load_candles at the same time.
C29_OneCyclePerSeries ==
    \A a, b \in assets :
        (/\ a # b
         /\ BaseUnderlying(a) = BaseUnderlying(b)
         /\ lcPc[a] \in {"last_date", "gather"})
        => lcPc[b] \notin {"last_date", "gather"}


\* C24: hist_vol returns None whenever the store read gave fewer than
\* HIST_WINDOW_MINUTES + 1 bars, zero bars and one bar included.
C24_TooFewBarsNoVolatility ==
    (lastRead.op = "hist_vol" /\ Len(lastRead.rows) < HIST_WINDOW_MINUTES + 1)
        => lastRead.value = None

\* hist_vol was called on a read exactly one bar short of the window
C24_Witness ==
    /\ lastRead.op = "hist_vol"
    /\ Len(lastRead.rows) = HIST_WINDOW_MINUTES
    /\ lastRead.value = None


\* C22: called on a date that is itself a candidate expiry date of the
\* base (a third Thursday of a quarterly month, or the first business day
\* of a month for a commodity), at any time of that day, actual_futures
\* returns the contract of a later expiry, never the one expiring that day.
C22_ExpiryDayReturnsNextContract ==
    afResult # None =>
        LET codes == IF afBase \in COMMODITIES THEN ALL_CODES ELSE MONTH_CODES
            IsExpiry(m) ==
                ToOrdinal(ExpiryOf(afBase, afDate.year, m)) = ToOrdinal(afDate)
            later == {m \in DOMAIN codes : m > afDate.month}
            next == IF later = {}
                    THEN [month |-> CHOOSE m \in DOMAIN codes : \A k \in DOMAIN codes : m <= k,
                          year |-> afDate.year + 1]
                    ELSE [month |-> CHOOSE m \in later : \A k \in later : m <= k,
                          year |-> afDate.year]
        IN (afDate.month \in DOMAIN codes /\ IsExpiry(afDate.month)) =>
               /\ afResult[1] # afBase \o <<codes[afDate.month], YearCode(afDate.year)>>
               /\ afResult[1] = afBase \o <<codes[next.month], YearCode(next.year)>>

\* actual_futures was called for Si at noon of Thursday 2029-12-20, the
\* third Thursday of December, and returned the March 2030 contract
C22_Witness ==
    /\ afBase = <<"S", "i">>
    /\ afDate = [year |-> 2029, month |-> 12, day |-> 20, time |-> TimeOfDay(12, 0)]
    /\ afResult = Some(<<"S", "i", "H", "0">>)

\* C23: actual_futures returns base + month letter + last digit of the
\* year of the candidate whose expiry date is the earliest one strictly
\* after the current date, among the candidate months of this year and of
\* the next under the convention of the base.
C23_EarliestExpiryAfterDate ==
    afResult # None =>
        LET commodity == afBase \in COMMODITIES
            months == IF commodity THEN 1..12 ELSE {3, 6, 9, 12}
            letter == [m \in 1..12 |->
                          <<"F", "G", "H", "J", "K", "M", "N", "Q", "U", "V", "X", "Z">>[m]]
            Wd(y, m, d) == WeekdayOf(Midnight(y, m, d))
            \* the Thursday among the 15th..21st, or the first day of the
            \* month that is no Saturday and no Sunday
            ExpiryDay(y, m) ==
                IF commodity
                THEN CHOOSE d \in 1..3 :
                         Wd(y, m, d) < 5 /\ \A e \in 1..(d - 1) : Wd(y, m, e) >= 5
                ELSE CHOOSE d \in 15..21 : Wd(y, m, d) = 3
            Exp(c) == ToOrdinal(Midnight(c[1], c[2], ExpiryDay(c[1], c[2])))
            candidates == {c \in {afDate.year, afDate.year + 1} \X months :
                               Exp(c) > ToOrdinal(afDate)}
            best == CHOOSE c \in candidates : \A e \in candidates : Exp(c) <= Exp(e)
        IN afResult[1] = afBase \o <<letter[best[2]], YearCode(best[1] % 10)>>

\* actual_futures was called for BR on Saturday 2028-12-30, after the
\* December expiry, and rolled to January 2029
C23_Witness ==
    /\ afBase = <<"B", "R">>
    /\ afDate.year = 2028 /\ afDate.month = 12 /\ afDate.day = 30
    /\ afResult = Some(<<"B", "R", "F", "9">>)


\* C25: implied_volatility returns NaN, never 0.0, when expiry_time < 0,
\* the underlying price or the strike is not positive, the option type is
\* invalid, or the objective has the same sign at both ends of the bracket
\* (no root inside); it returns 0.0 only when expiry_time = 0 and the
\* observed price is within the tolerance of the intrinsic value; every
\* other number it returns lies in [IV_VOL_LOWER, IV_VOL_UPPER].
C25_NoSolutionIsNaN ==
    ivResult # None =>
        LET a == ivArgs
            res == ivResult[1]
            invalid == \/ a.expiry_time < 0
                       \/ a.underlying_price <= 0
                       \/ a.strike <= 0
                       \/ a.option_type \notin {"C", "P"}
            intrinsic == (IF a.option_type = "C"
                          THEN Max2(a.underlying_price - a.strike, 0)
                          ELSE Max2(a.strike - a.underlying_price, 0)) * 1000000
            atIntrinsic == /\ a.prev_settle_price - intrinsic < IV_TOL
                           /\ intrinsic - a.prev_settle_price < IV_TOL
            PriceAt(vol) == Black76Price(a.underlying_price, a.strike, a.expiry_time,
                                         a.rate, vol, a.option_type)
            noRoot == \/ /\ PriceAt(IV_VOL_LOWER) > a.prev_settle_price
                         /\ PriceAt(IV_VOL_UPPER) > a.prev_settle_price
                      \/ /\ PriceAt(IV_VOL_LOWER) < a.prev_settle_price
                         /\ PriceAt(IV_VOL_UPPER) < a.prev_settle_price
        IN /\ invalid => res.nan
           /\ (~invalid /\ a.expiry_time > 0 /\ noRoot) => res.nan
           /\ (~res.nan /\ res.value = 0) =>
                  (~invalid /\ a.expiry_time = 0 /\ atIntrinsic)
           /\ (~res.nan /\ res.value # 0) =>
                  (res.value >= IV_VOL_LOWER /\ res.value <= IV_VOL_UPPER)

\* implied_volatility was called for a put with a positive expiry_time and
\* an observed price above every price of the bracket, and returned NaN
C25_Witness ==
    /\ ivResult # None
    /\ ivArgs.expiry_time = 1
    /\ ivArgs.underlying_price = 739 /\ ivArgs.strike = 100
    /\ ivArgs.option_type = "P"
    /\ ivArgs.prev_settle_price = 2000000000
    /\ ivResult[1].nan

\* C26: for F0, K, T and sigma all positive, the call price less the put
\* price equals exp(-r T) * (F0 - K), for black76_price and for the kernel
\* calculate_black76_numba.
C26_PutCallParity ==
    (bsResult # None /\ bsArgs.T > 0 /\ bsArgs.sigma > 0) =>
        LET a == bsArgs
            parity == DiscountFactor(a.r, a.T) * (a.F0 - a.K) * 1000
        IN /\ bsResult[1].call - bsResult[1].put = parity
           /\ bsResult[1].call_numba - bsResult[1].put_numba = parity

\* an in-the-money pair was priced at T = 4 with the rate 0.19, and both
\* put prices are positive
C26_Witness ==
    /\ bsResult # None
    /\ bsArgs = [F0 |-> 739, K |-> 100, T |-> 4, r |-> IV_RATE, sigma |-> 1000000]
    /\ bsResult[1].put > 0
    /\ bsResult[1].put_numba > 0
    /\ bsResult[1].call_numba - bsResult[1].put_numba = 468 * 639 * 1000


\* C28: no state is reached in which the pool can create no further
\* connection, its queue is empty, and every connection is held by a
\* getdb_candles_fast call that waits for a further connection.
C28_NoHoldAndWait ==
    ~(/\ created_connections = max_connections
      /\ pool = <<>>
      /\ open # {}
      /\ \A c \in open :
             \E r \in FastCalls :
                 /\ held[Outer(r)] = Some(c)
                 /\ fastPc[r] = "create_view"
                 /\ ppc[Inner(r)] = "waiting")

=============================================================================
